---- MODULE Spec2Model ----
(***************************************************************************)
(* The turn-processing pipeline of nms-txt (src/js/game.js, later revision *)
(* starting at line 1683): the module-level state, the event handlers and  *)
(* the two asynchronous operations (processPlayerAction, startNewGame)     *)
(* whose only suspension point is the oracle call.                         *)
(*                                                                         *)
(* Texts that come from the player or the oracle are sequences of          *)
(* one-character strings, so that toLowerCase and String.includes are      *)
(* computed as the code computes them.  JavaScript null is the record      *)
(* Null for object-valued variables and 0 for the timer handle.            *)
(***************************************************************************)
EXTENDS Integers, Sequences, FiniteSets, TLC

(* ------------------------------ bounds -------------------------------- *)
\* Oracle calls (callAI) issued in one run.
MaxCalls == 2

(* ------------------------- program constants -------------------------- *)
maxConversationHistory == 20
maxActionHistory == 50
MaxWager == 5
DiceSides == 20
DefaultDC == 12
AutoSaveSlot == 0

Null == [null |-> TRUE]

Skills == {"survival", "technology", "exploration", "combat"}

Max(a, b) == IF a >= b THEN a ELSE b
Min(a, b) == IF a <= b THEN a ELSE b

(* ------------------------------- texts -------------------------------- *)
UpperCase == <<"A", "B", "C", "D", "E", "F", "G", "H", "I", "J", "K", "L", "M",
               "N", "O", "P", "Q", "R", "S", "T", "U", "V", "W", "X", "Y", "Z">>
LowerCase == <<"a", "b", "c", "d", "e", "f", "g", "h", "i", "j", "k", "l", "m",
               "n", "o", "p", "q", "r", "s", "t", "u", "v", "w", "x", "y", "z">>

\* One character of String.prototype.toLowerCase.
LowerChar(c) ==
    IF \E i \in 1..26 : UpperCase[i] = c
    THEN LowerCase[CHOOSE i \in 1..26 : UpperCase[i] = c]
    ELSE c

toLowerCase(text) == [i \in 1..Len(text) |-> LowerChar(text[i])]

\* String.prototype.includes: the keyword occurs as a substring.
includes(text, keyword) ==
    \E i \in 1..(Len(text) - Len(keyword) + 1) :
        SubSeq(text, i, i + Len(keyword) - 1) = keyword

(* --------------------------- skill classifier ------------------------- *)
combatKeywords ==
    << <<"a", "t", "t", "a", "c", "k">>,
       <<"f", "i", "g", "h", "t">>,
       <<"s", "h", "o", "o", "t">>,
       <<"d", "e", "f", "e", "n", "d">>,
       <<"w", "e", "a", "p", "o", "n">>,
       <<"k", "i", "l", "l">>,
       <<"b", "a", "t", "t", "l", "e">>,
       <<"c", "o", "m", "b", "a", "t">>,
       <<"s", "t", "r", "i", "k", "e">>,
       <<"h", "i", "t">>,
       <<"d", "o", "d", "g", "e">>,
       <<"b", "l", "o", "c", "k">>,
       <<"c", "h", "a", "r", "g", "e">>,
       <<"a", "s", "s", "a", "u", "l", "t">>,
       <<"a", "g", "g", "r", "e", "s", "s", "i", "v", "e">> >>

technologyKeywords ==
    << <<"r", "e", "p", "a", "i", "r">>,
       <<"f", "i", "x">>,
       <<"c", "r", "a", "f", "t">>,
       <<"b", "u", "i", "l", "d">>,
       <<"u", "p", "g", "r", "a", "d", "e">>,
       <<"m", "o", "d", "i", "f", "y">>,
       <<"e", "n", "g", "i", "n", "e", "e", "r">>,
       <<"c", "o", "n", "s", "t", "r", "u", "c", "t">>,
       <<"a", "s", "s", "e", "m", "b", "l", "e">>,
       <<"c", "a", "l", "i", "b", "r", "a", "t", "e">>,
       <<"s", "y", "s", "t", "e", "m">>,
       <<"c", "o", "m", "p", "u", "t", "e", "r">>,
       <<"t", "e", "r", "m", "i", "n", "a", "l">>,
       <<"c", "o", "d", "e">>,
       <<"h", "a", "c", "k">>,
       <<"p", "r", "o", "g", "r", "a", "m">>,
       <<"w", "i", "r", "e">>,
       <<"c", "i", "r", "c", "u", "i", "t">>,
       <<"t", "e", "c", "h", "n", "o", "l", "o", "g", "y">>,
       <<"d", "e", "v", "i", "c", "e">>,
       <<"t", "o", "o", "l">> >>

survivalKeywords ==
    << <<"g", "a", "t", "h", "e", "r">>,
       <<"c", "o", "l", "l", "e", "c", "t">>,
       <<"h", "a", "r", "v", "e", "s", "t">>,
       <<"h", "u", "n", "t">>,
       <<"f", "o", "r", "a", "g", "e">>,
       <<"s", "c", "a", "v", "e", "n", "g", "e">>,
       <<"w", "a", "t", "e", "r">>,
       <<"f", "o", "o", "d">>,
       <<"s", "h", "e", "l", "t", "e", "r">>,
       <<"m", "e", "d", "i", "c", "i", "n", "e">>,
       <<"h", "e", "a", "l">>,
       <<"s", "u", "r", "v", "i", "v", "e">>,
       <<"r", "e", "s", "o", "u", "r", "c", "e">>,
       <<"t", "o", "x", "i", "n">>,
       <<"r", "a", "d", "i", "a", "t", "i", "o", "n">>,
       <<"t", "e", "m", "p", "e", "r", "a", "t", "u", "r", "e">>,
       <<"h", "a", "z", "a", "r", "d">>,
       <<"e", "n", "v", "i", "r", "o", "n", "m", "e", "n", "t", "a", "l">>,
       <<"a", "d", "a", "p", "t">> >>

explorationKeywords ==
    << <<"e", "x", "p", "l", "o", "r", "e">>,
       <<"s", "e", "a", "r", "c", "h">>,
       <<"i", "n", "v", "e", "s", "t", "i", "g", "a", "t", "e">>,
       <<"e", "x", "a", "m", "i", "n", "e">>,
       <<"l", "o", "o", "k">>,
       <<"s", "c", "o", "u", "t">>,
       <<"s", "u", "r", "v", "e", "y">>,
       <<"n", "a", "v", "i", "g", "a", "t", "e">>,
       <<"m", "a", "p">>,
       <<"d", "i", "s", "c", "o", "v", "e", "r">>,
       <<"f", "i", "n", "d">>,
       <<"s", "t", "u", "d", "y">>,
       <<"a", "n", "a", "l", "y", "z", "e">>,
       <<"i", "n", "s", "p", "e", "c", "t">>,
       <<"o", "b", "s", "e", "r", "v", "e">>,
       <<"w", "a", "n", "d", "e", "r">>,
       <<"t", "r", "e", "k">>,
       <<"j", "o", "u", "r", "n", "e", "y">>,
       <<"t", "r", "a", "v", "e", "l">>,
       <<"c", "l", "i", "m", "b">>,
       <<"d", "e", "s", "c", "e", "n", "d">>,
       <<"v", "e", "n", "t", "u", "r", "e">> >>

AnyIncluded(text, keywords) ==
    \E k \in 1..Len(keywords) : includes(text, keywords[k])

\* A variant of detectSkillFromAction that tries the exploration keywords first.
detectSkillExplorationFirst(actionText) ==
    LET text == toLowerCase(actionText) IN
    IF AnyIncluded(text, explorationKeywords) THEN "exploration"
    ELSE IF AnyIncluded(text, combatKeywords) THEN "combat"
    ELSE IF AnyIncluded(text, technologyKeywords) THEN "technology"
    ELSE IF AnyIncluded(text, survivalKeywords) THEN "survival"
    ELSE "exploration"

detectSkillFromAction(actionText) ==
    LET text == toLowerCase(actionText) IN
    IF AnyIncluded(text, combatKeywords) THEN "combat"
    ELSE IF AnyIncluded(text, technologyKeywords) THEN "technology"
    ELSE IF AnyIncluded(text, survivalKeywords) THEN "survival"
    ELSE IF AnyIncluded(text, explorationKeywords) THEN "exploration"
    ELSE "exploration"

(* ------------------------------ dice ---------------------------------- *)
TierEasy == <<"e", "a", "s", "y">>
TierMedium == <<"m", "e", "d", "i", "u", "m">>
TierHard == <<"h", "a", "r", "d">>
TierVeryHard == <<"v", "e", "r", "y", " ", "h", "a", "r", "d">>

\* A table whose Medium threshold is above 14.
DifficultyClassSteep(difficulty) ==
    LET key == toLowerCase(difficulty) IN
    IF key = TierEasy THEN 6
    ELSE IF key = TierMedium THEN 15
    ELSE IF key = TierHard THEN 13
    ELSE IF key = TierVeryHard THEN 17
    ELSE DefaultDC

\* DIFFICULTY_DC[difficulty.toLowerCase()] || 12
DifficultyClass(difficulty) ==
    LET key == toLowerCase(difficulty) IN
    IF key = TierEasy THEN 6
    ELSE IF key = TierMedium THEN 9
    ELSE IF key = TierHard THEN 13
    ELSE IF key = TierVeryHard THEN 17
    ELSE DefaultDC

\* The values of rollDice(20) drawn: the extremes and one in between.
RollsDrawn == {1, 6, DiceSides}

\* A variant of performSkillCheck whose criticals look at the outcome: a
\* critical success needs a total of DiceSides, a critical failure a failed check.
performSkillCheckCriticalByOutcome(roll, difficulty, bonuses, skillName) ==
    LET total == roll + bonuses
        dc == DifficultyClass(difficulty)
    IN [ roll |-> roll,
         bonuses |-> bonuses,
         total |-> total,
         dc |-> dc,
         success |-> (total >= dc),
         criticalSuccess |-> (total >= DiceSides),
         criticalFailure |-> (roll = 1 /\ total < dc),
         difficulty |-> difficulty,
         skillUsed |-> skillName ]

\* performSkillCheck with the value rollDice(20) returned.
performSkillCheck(roll, difficulty, bonuses, skillName) ==
    LET total == roll + bonuses
        dc == DifficultyClass(difficulty)
    IN [ roll |-> roll,
         bonuses |-> bonuses,
         total |-> total,
         dc |-> dc,
         success |-> (total >= dc),
         criticalSuccess |-> (roll = DiceSides),
         criticalFailure |-> (roll = 1),
         difficulty |-> difficulty,
         skillUsed |-> skillName ]

(* ------------------------------ game state ---------------------------- *)
\* The scenarios of STARTING_SCENARIOS, in list order.
STARTING_SCENARIOS ==
    << [shipHealth |-> 15, fuel |-> 0, inventory |-> <<>>],
       [shipHealth |-> 40, fuel |-> 5, inventory |-> [plutonium |-> 3, carbon |-> 2]],
       [shipHealth |-> 5, fuel |-> 0, inventory |-> [oxygen |-> 50]],
       [shipHealth |-> 30, fuel |-> 15, inventory |-> [iron |-> 10, zinc |-> 5]],
       [shipHealth |-> 50, fuel |-> 20, inventory |-> [nanites |-> 5]],
       [shipHealth |-> 25, fuel |-> 8, inventory |-> [heridium |-> 7, titanium |-> 3]] >>

\* Only the fields the pipeline reads or writes; skills[s].level and .xp are unused.
createInitialGameState ==
    [ currentLocation |-> [distanceFromCenter |-> 715342],
      ship |-> [health |-> 15, fuel |-> 0],
      inventory |-> [carbon |-> 0, iron |-> 0, plutonium |-> 0,
                     heridium |-> 0, zinc |-> 0, titanium |-> 0],
      conversationHistory |-> <<>>,
      currentNarrative |-> <<>>,
      currentOptions |-> <<>>,
      stats |-> [resourcesGathered |-> 0, deathCount |-> 0],
      skills |-> [s \in Skills |-> [points |-> 0]],
      actionHistory |-> <<>> ]

\* { ...a, ...b }
Spread(a, b) ==
    [k \in DOMAIN a \cup DOMAIN b |-> IF k \in DOMAIN b THEN b[k] ELSE a[k]]

\* The state startNewGame builds before it calls the oracle.
NewGameState(scenario, randomDistance) ==
    [ createInitialGameState EXCEPT
        !.ship = [health |-> scenario.shipHealth, fuel |-> scenario.fuel],
        !.inventory = Spread(@, scenario.inventory),
        !.currentLocation = [distanceFromCenter |-> randomDistance] ]

(* --------------------------- state reducer ---------------------------- *)
\* The value JavaScript computes for Math.max(0, x) when x is not a number.
NaN == -1000000000

\* Keys every object inherits from Object.prototype that an item name
\* (lower-cased \w+) can spell: inventory[key] is then not undefined.
InheritedKeys == {"constructor"}

RECURSIVE SumPositive(_, _)
SumPositive(changes, keys) ==
    IF keys = {} THEN 0
    ELSE LET k == CHOOSE x \in keys : TRUE IN
         (IF changes[k] > 0 THEN changes[k] ELSE 0) + SumPositive(changes, keys \ {k})

\* One entry of the inventory loop: the new value of inventory[item].
InventoryAfter(inventory, item, amount) ==
    IF item \in DOMAIN inventory
    THEN IF inventory[item] = NaN THEN NaN ELSE Max(0, inventory[item] + amount)
    ELSE IF item \in InheritedKeys THEN NaN
    ELSE Max(0, 0 + amount)

\* A variant of applyStateUpdates whose fuel clause reads the ship clause.
applyStateUpdatesFuelByShip(gs, updates) ==
    IF updates = Null THEN gs
    ELSE
    LET health == IF "ship" \in DOMAIN updates
                  THEN Max(0, Min(100, gs.ship.health + updates.ship))
                  ELSE gs.ship.health
        fuel == IF "ship" \in DOMAIN updates
                THEN Max(0, gs.ship.fuel + updates.ship)
                ELSE gs.ship.fuel
        distance == IF "distance" \in DOMAIN updates
                    THEN Max(0, gs.currentLocation.distanceFromCenter + updates.distance)
                    ELSE gs.currentLocation.distanceFromCenter
        closest == IF "distance" \in DOMAIN updates /\ updates.distance < 0
                   THEN Spread(gs.stats, [distanceFromCenter |-> distance])
                   ELSE gs.stats
        changes == IF "inventory" \in DOMAIN updates THEN updates.inventory ELSE <<>>
        inventory == [item \in DOMAIN gs.inventory \cup DOMAIN changes |->
                        IF item \in DOMAIN changes
                        THEN InventoryAfter(gs.inventory, item, changes[item])
                        ELSE gs.inventory[item]]
        gathered == closest.resourcesGathered + SumPositive(changes, DOMAIN changes)
    IN [ gs EXCEPT
           !.ship = [health |-> health, fuel |-> fuel],
           !.currentLocation = [distanceFromCenter |-> distance],
           !.inventory = inventory,
           !.stats = [closest EXCEPT !.resourcesGathered = gathered] ]

RECURSIVE SumChanges(_, _)
SumChanges(changes, keys) ==
    IF keys = {} THEN 0
    ELSE LET k == CHOOSE x \in keys : TRUE IN
         changes[k] + SumChanges(changes, keys \ {k})

\* A variant of applyStateUpdates in which resourcesGathered follows every
\* inventory change, decreases included.
applyStateUpdatesMirroring(gs, updates) ==
    IF updates = Null THEN gs
    ELSE
    LET health == IF "ship" \in DOMAIN updates
                  THEN Max(0, Min(100, gs.ship.health + updates.ship))
                  ELSE gs.ship.health
        fuel == IF "fuel" \in DOMAIN updates
                THEN Max(0, gs.ship.fuel + updates.fuel)
                ELSE gs.ship.fuel
        distance == IF "distance" \in DOMAIN updates
                    THEN Max(0, gs.currentLocation.distanceFromCenter + updates.distance)
                    ELSE gs.currentLocation.distanceFromCenter
        closest == IF "distance" \in DOMAIN updates /\ updates.distance < 0
                   THEN Spread(gs.stats, [distanceFromCenter |-> distance])
                   ELSE gs.stats
        changes == IF "inventory" \in DOMAIN updates THEN updates.inventory ELSE <<>>
        inventory == [item \in DOMAIN gs.inventory \cup DOMAIN changes |->
                        IF item \in DOMAIN changes
                        THEN InventoryAfter(gs.inventory, item, changes[item])
                        ELSE gs.inventory[item]]
        gathered == Max(0, closest.resourcesGathered
                           + SumChanges(changes, DOMAIN changes))
    IN [ gs EXCEPT
           !.ship = [health |-> health, fuel |-> fuel],
           !.currentLocation = [distanceFromCenter |-> distance],
           !.inventory = inventory,
           !.stats = [closest EXCEPT !.resourcesGathered = gathered] ]

applyStateUpdates(gs, updates) ==
    IF updates = Null THEN gs
    ELSE
    LET health == IF "ship" \in DOMAIN updates
                  THEN Max(0, Min(100, gs.ship.health + updates.ship))
                  ELSE gs.ship.health
        fuel == IF "fuel" \in DOMAIN updates
                THEN Max(0, gs.ship.fuel + updates.fuel)
                ELSE gs.ship.fuel
        distance == IF "distance" \in DOMAIN updates
                    THEN Max(0, gs.currentLocation.distanceFromCenter + updates.distance)
                    ELSE gs.currentLocation.distanceFromCenter
        closest == IF "distance" \in DOMAIN updates /\ updates.distance < 0
                   THEN Spread(gs.stats, [distanceFromCenter |-> distance])
                   ELSE gs.stats
        changes == IF "inventory" \in DOMAIN updates THEN updates.inventory ELSE <<>>
        inventory == [item \in DOMAIN gs.inventory \cup DOMAIN changes |->
                        IF item \in DOMAIN changes
                        THEN InventoryAfter(gs.inventory, item, changes[item])
                        ELSE gs.inventory[item]]
        gathered == closest.resourcesGathered + SumPositive(changes, DOMAIN changes)
    IN [ gs EXCEPT
           !.ship = [health |-> health, fuel |-> fuel],
           !.currentLocation = [distanceFromCenter |-> distance],
           !.inventory = inventory,
           !.stats = [closest EXCEPT !.resourcesGathered = gathered] ]

pruneConversationHistory(history) ==
    IF Len(history) > maxConversationHistory
    THEN SubSeq(history, Len(history) - maxConversationHistory + 1, Len(history))
    ELSE history

\* A variant of awardSkillPoints without the floor of one point.
awardSkillPointsNoFloor(skills, skillName, diceRollResult) ==
    IF ~diceRollResult.success THEN skills
    ELSE LET marginOfSuccess == diceRollResult.total - diceRollResult.dc
         IN [skills EXCEPT ![skillName].points = @ + marginOfSuccess]

\* awardSkillPoints: the skills after the award, for a state that exists.
awardSkillPoints(skills, skillName, diceRollResult) ==
    IF ~diceRollResult.success THEN skills
    ELSE LET marginOfSuccess == diceRollResult.total - diceRollResult.dc
             pointsEarned == Max(1, marginOfSuccess)
         IN [skills EXCEPT ![skillName].points = @ + pointsEarned]

\* JSON.parse(JSON.stringify(gameState)): NaN is written as null, which every
\* later use of an inventory value coerces to 0.
JsonCopy(gs) ==
    [gs EXCEPT !.inventory = [k \in DOMAIN gs.inventory |->
                                 IF gs.inventory[k] = NaN THEN 0 ELSE gs.inventory[k]]]

(* --------------------------- oracle replies --------------------------- *)
TextRest == <<"R", "e", "s", "t">>
TextDigFurther == <<"D", "i", "g", " ", "f", "u", "r", "t", "h", "e", "r">>
TextAttack == <<"A", "t", "t", "a", "c", "k", " ", "t", "h", "e", " ", "d", "r", "o", "n", "e">>
TextContinue == <<"C", "o", "n", "t", "i", "n", "u", "e", " ", "e", "x", "p", "l", "o", "r", "i", "n", "g">>
TextLook == <<"L", "o", "o", "k", " ", "a", "r", "o", "u", "n", "d", " ", "c", "a", "r", "e", "f", "u", "l", "l", "y">>
TextRisky == <<"T", "r", "y", " ", "s", "o", "m", "e", "t", "h", "i", "n", "g", " ", "r", "i", "s", "k", "y">>
TextWait == <<"w", "a", "i", "t">>
Easy == <<"E", "a", "s", "y">>
Medium == <<"M", "e", "d", "i", "u", "m">>
Hard == <<"H", "a", "r", "d">>
NarrativeScrap == <<"Y", "o", "u", " ", "f", "i", "n", "d", " ", "s", "c", "r", "a", "p", ".">>
NarrativeDied == <<"Y", "o", "u", " ", "h", "a", "v", "e", " ", "d", "i", "e", "d", ".">>

\* The option list parseGameMasterResponse substitutes when it finds none.
DefaultOptions ==
    << [text |-> TextContinue, difficulty |-> Easy],
       [text |-> TextLook, difficulty |-> Medium],
       [text |-> TextRisky, difficulty |-> Hard] >>

\* What parseGameMasterResponse returns for the response texts the oracle
\* sends in this model: {narrative, stateUpdate, options, isPlayerDead}.
Replies ==
    << [ narrative |-> NarrativeScrap,
         stateUpdate |-> [ship |-> 5, inventory |-> [iron |-> 3]],
         options |-> << [text |-> TextRest, difficulty |-> Easy],
                        [text |-> TextAttack, difficulty |-> Hard] >>,
         isPlayerDead |-> FALSE ],
       [ narrative |-> NarrativeDied,
         stateUpdate |-> Null,
         options |-> DefaultOptions,
         isPlayerDead |-> TRUE ] >>

\* The replies drawn for the opening of a new game and for a turn; 0 is a
\* response without text (callAI returns undefined).
OpeningReplies == {0, 1}
TurnReplies == 0..Len(Replies)

\* Custom texts the player types into the custom-action form.
CustomTexts == {TextWait}

\* detectSkillFromAction on every action text of the model, computed once.
ActionTexts ==
    CustomTexts \cup {TextDigFurther} \cup
    UNION { {Replies[r].options[o].text : o \in 1..Len(Replies[r].options)} :
            r \in 1..Len(Replies) }
SkillTable == [text \in ActionTexts |-> detectSkillFromAction(text)]

\* How callAI fails here: a non-401 error status, status 401.
FailureKinds == {"status", "auth"}

\* error.message of the Error callAI throws.
ErrorMessage(kind) ==
    CASE kind = "status" -> "API error: 500"
      [] kind = "auth" -> "Invalid API key. Please enter a new one."
      [] kind = "nokey" -> "API key required"

\* The TypeError of text.match when callAI returned undefined.
ParseTypeError == "Cannot read properties of undefined (reading 'match')"
\* The TypeError of reading gameState.currentLocation when gameState is null.
NoGameTypeError == "Cannot read properties of null (reading 'currentLocation')"

(* ------------------------------- state -------------------------------- *)
VARIABLES
    initialized,         \* DOMContentLoaded has run initializeGame
    gameState,           \* let gameState (Null before the first game)
    isProcessingAction,  \* let isProcessingAction
    pendingAction,       \* let pendingAction
    sliderMax,           \* #points-slider max while the wager prompt is open
    skillNameDisplay,    \* #skill-name-display while the wager prompt is open
    actionsDisabled,     \* the rendered option buttons are disabled
    submitDisabled,      \* #custom-action-submit is disabled
    turns,               \* processPlayerAction calls suspended at await callAI
    guardHit,            \* ghost: a call returned at the in-flight guard while
                         \* the turn now suspended was awaiting the oracle
    newGames,            \* startNewGame calls suspended at await callAI
    calls,               \* callAI invocations so far
    apiKey,              \* localStorage holds an API key
    settings,            \* getSettings(), kept in localStorage
    saves,               \* localStorage save slots
    autoSaveTimeout,     \* let autoSaveTimeout (0 is null)
    timers,              \* timers that have not fired
    errorMessage         \* #error-message ("" when hidden)

vars == << initialized, gameState, isProcessingAction, pendingAction,
           sliderMax, skillNameDisplay, actionsDisabled, submitDisabled,
           turns, guardHit, newGames, calls, apiKey, settings, saves,
           autoSaveTimeout, timers, errorMessage >>

Slots == {AutoSaveSlot}

\* The scenarios and the random starting distances startNewGame draws here.
ScenariosDrawn == {1}
DistancesDrawn == {650000}

\* An auto-save left by an earlier session: a crash-landing game whose opening
\* was the first reply, followed by one turn "Rest" (Easy, no wager, roll 8,
\* two points earned) answered by the same reply and saved by the auto-save
\* timer.  The calls of that session are numbered below 1.
PriorSave ==
    [ currentLocation |-> [distanceFromCenter |-> 650000],
      ship |-> [health |-> 25, fuel |-> 0],
      inventory |-> [carbon |-> 0, iron |-> 6, plutonium |-> 0,
                     heridium |-> 0, zinc |-> 0, titanium |-> 0],
      conversationHistory |->
          << [role |-> "assistant", call |-> -1, reply |-> 1],
             [role |-> "user", call |-> 0, action |-> TextRest],
             [role |-> "assistant", call |-> 0, reply |-> 1] >>,
      currentNarrative |-> Replies[1].narrative,
      currentOptions |-> Replies[1].options,
      stats |-> [resourcesGathered |-> 6, deathCount |-> 0],
      skills |-> [s \in Skills |-> [points |-> IF s = "exploration" THEN 2 ELSE 0]],
      actionHistory |-> << [action |-> TextRest,
                           result |-> Replies[1].narrative \o <<".", ".", ".">>] >> ]

\* A page load: no game yet, nothing in flight; the browser profile may hold an
\* API key and an auto-save.
Init ==
    /\ initialized = FALSE
    /\ gameState = Null
    /\ isProcessingAction = FALSE
    /\ pendingAction = Null
    /\ sliderMax = 0
    /\ skillNameDisplay = ""
    /\ actionsDisabled = FALSE
    /\ submitDisabled = FALSE
    /\ turns = <<>>
    /\ guardHit = FALSE
    /\ newGames = <<>>
    /\ calls = 0
    /\ apiKey \in BOOLEAN
    /\ settings = [autoSave |-> TRUE]
    /\ saves \in {[s \in Slots |-> Null], [s \in Slots |-> PriorSave]}
    /\ autoSaveTimeout = 0
    /\ timers = {}
    /\ errorMessage = ""

Remove(seq, i) == SubSeq(seq, 1, i - 1) \o SubSeq(seq, i + 1, Len(seq))

(* ------------------------------ save/load ----------------------------- *)
\* saveGame(slotNumber) for a snapshot under the size cap.
saveGame(slotNumber, gs) ==
    [saves EXCEPT ![slotNumber] = JsonCopy(gs)]

\* autoSave(): nothing is written when the setting is off or there is no game.
autoSave(gs) ==
    IF ~settings.autoSave \/ gs = Null THEN saves ELSE saveGame(AutoSaveSlot, gs)

\* loadGame(slot) of a filled slot, from the load dialog or the welcome-back
\* dialog; updateGameUI renders fresh, enabled option buttons.
LoadGame(slot) ==
    /\ initialized
    /\ saves[slot] # Null
    /\ gameState' = saves[slot]
    /\ actionsDisabled' = FALSE
    /\ UNCHANGED << initialized, isProcessingAction, pendingAction, sliderMax,
                    skillNameDisplay,
                    submitDisabled, turns, guardHit, newGames, calls, apiKey, settings,
                    saves, autoSaveTimeout, timers, errorMessage >>

\* The timer started by scheduleAutoSave fires.
AutoSaveTimer(id) ==
    /\ id \in timers
    /\ timers' = timers \ {id}
    /\ saves' = autoSave(gameState)
    /\ UNCHANGED << initialized, gameState, isProcessingAction, pendingAction,
                    sliderMax, skillNameDisplay, actionsDisabled,
                    submitDisabled, turns, guardHit,
                    newGames, calls, apiKey, settings, autoSaveTimeout, errorMessage >>

(* ------------------------------ new game ------------------------------ *)
\* startNewGame up to its await: the state is replaced, the UI re-rendered and
\* the oracle called; without an API key callAI throws at once.
startNewGame(key) ==
    /\ calls < MaxCalls
    /\ \E s \in ScenariosDrawn, randomDistance \in DistancesDrawn :
           gameState' = NewGameState(STARTING_SCENARIOS[s], randomDistance)
    /\ calls' = calls + 1
    /\ actionsDisabled' = FALSE
    /\ IF key
       THEN /\ newGames' = Append(newGames, [call |-> calls + 1])
            /\ errorMessage' = ""
       ELSE /\ newGames' = newGames
            /\ errorMessage' = "Failed to start game: " \o ErrorMessage("nokey")
    /\ UNCHANGED << isProcessingAction, pendingAction, sliderMax,
                    skillNameDisplay, submitDisabled,
                    turns, guardHit, saves, autoSaveTimeout, timers >>

\* initializeGame: without a key the key dialog opens, with an auto-save the
\* welcome-back dialog; otherwise a new game starts.
InitializeGame ==
    /\ ~initialized
    /\ initialized' = TRUE
    /\ IF apiKey /\ saves[AutoSaveSlot] = Null
       THEN startNewGame(TRUE) /\ UNCHANGED << apiKey, settings >>
       ELSE UNCHANGED << gameState, isProcessingAction, pendingAction,
                         sliderMax, skillNameDisplay, actionsDisabled,
                         submitDisabled, turns,
                         guardHit, newGames, calls, apiKey, settings, saves,
                         autoSaveTimeout, timers, errorMessage >>

\* #api-key-submit with a non-empty key.
ApiKeySubmit ==
    /\ initialized
    /\ apiKey' = TRUE
    /\ startNewGame(TRUE)
    /\ UNCHANGED << initialized, settings >>

\* "New Game" of the start-new-game or welcome-back dialog, or
\* #restart-from-death-btn.
NewGameClick ==
    /\ initialized
    /\ startNewGame(apiKey)
    /\ UNCHANGED << initialized, apiKey, settings >>

\* The assistant entry startNewGame appends; reply 0 is a response without text.
OpeningEntry(call, reply) == [role |-> "assistant", call |-> call, reply |-> reply]

\* callAI returned to startNewGame.
NewGameSucceeds(i, r) ==
    /\ i \in 1..Len(newGames)
    /\ r \in OpeningReplies
    /\ LET call == newGames[i].call
           pushed == [gameState EXCEPT
                        !.conversationHistory = Append(@, OpeningEntry(call, r))]
       IN IF r = 0
          THEN /\ gameState' = pushed
               /\ errorMessage' = "Failed to start game: " \o ParseTypeError
               /\ UNCHANGED << saves, actionsDisabled >>
          ELSE LET parsed == Replies[r]
                   applied == applyStateUpdates(pushed, parsed.stateUpdate)
                   final == [applied EXCEPT
                               !.currentNarrative = parsed.narrative,
                               !.currentOptions = parsed.options]
               IN /\ gameState' = final
                  /\ saves' = autoSave(final)
                  /\ actionsDisabled' = FALSE
                  /\ UNCHANGED errorMessage
    /\ newGames' = Remove(newGames, i)
    /\ UNCHANGED << initialized, isProcessingAction, pendingAction, sliderMax,
                    skillNameDisplay,
                    submitDisabled, turns, guardHit, calls, apiKey, settings,
                    autoSaveTimeout, timers >>

\* callAI threw in startNewGame.
NewGameFails(i, kind) ==
    /\ i \in 1..Len(newGames)
    /\ kind \in FailureKinds
    /\ newGames' = Remove(newGames, i)
    /\ apiKey' = IF kind = "auth" THEN FALSE ELSE apiKey
    /\ errorMessage' = "Failed to start game: " \o ErrorMessage(kind)
    /\ UNCHANGED << initialized, gameState, isProcessingAction, pendingAction,
                    sliderMax, skillNameDisplay, actionsDisabled,
                    submitDisabled, turns, guardHit,
                    calls, settings, saves, autoSaveTimeout, timers >>

(* -------------------------------- turns ------------------------------- *)
\* showSkillSpendModal: the slider's maximum for the classified skill.
SliderMaxFor(gs, actionText) ==
    LET skill == SkillTable[actionText]
        available == gs.skills[skill].points
    IN Min(MaxWager, available)

\* A variant of StageAction in which an open wager prompt keeps the skill name
\* it shows.
StageActionKeepsDisplay(actionText, difficulty) ==
    /\ pendingAction' = [actionText |-> actionText, difficulty |-> difficulty]
    /\ sliderMax' = SliderMaxFor(gameState, actionText)
    /\ skillNameDisplay' = IF pendingAction = Null THEN SkillTable[actionText]
                           ELSE skillNameDisplay
    /\ UNCHANGED << initialized, gameState, isProcessingAction,
                    actionsDisabled, submitDisabled, turns, guardHit, newGames,
                    calls, apiKey, settings, saves, autoSaveTimeout, timers, errorMessage >>

\* A variant of StageAction that also rolls, without a bonus, and awards the
\* points of the roll.
StageActionRolling(actionText, difficulty) ==
    /\ pendingAction' = [actionText |-> actionText, difficulty |-> difficulty]
    /\ sliderMax' = SliderMaxFor(gameState, actionText)
    /\ skillNameDisplay' = SkillTable[actionText]
    /\ \E roll \in RollsDrawn :
           gameState' = [gameState EXCEPT !.skills =
               awardSkillPoints(@, SkillTable[actionText],
                   performSkillCheck(roll, difficulty, 0, SkillTable[actionText]))]
    /\ UNCHANGED << initialized, isProcessingAction,
                    actionsDisabled, submitDisabled, turns, guardHit, newGames,
                    calls, apiKey, settings, saves, autoSaveTimeout, timers, errorMessage >>

\* processPlayerAction(actionText, difficulty) with no wager decision: the
\* action is staged and the wager prompt opened, before the in-flight guard.
StageAction(actionText, difficulty) ==
    /\ pendingAction' = [actionText |-> actionText, difficulty |-> difficulty]
    /\ sliderMax' = SliderMaxFor(gameState, actionText)
    /\ skillNameDisplay' = SkillTable[actionText]
    /\ UNCHANGED << initialized, gameState, isProcessingAction,
                    actionsDisabled, submitDisabled, turns, guardHit, newGames,
                    calls, apiKey, settings, saves, autoSaveTimeout, timers, errorMessage >>

\* A click on one of the rendered option buttons (or its number key).
OptionClick ==
    /\ initialized
    /\ gameState # Null
    /\ ~actionsDisabled
    /\ \E i \in 1..Len(gameState.currentOptions) :
           StageAction(gameState.currentOptions[i].text,
                       gameState.currentOptions[i].difficulty)

\* A variant of SkillsAfterRoll that hands the wager back when the roll fails.
SkillsAfterRollRefunding(skills, appliedSkill, spentPoints, diceRoll) ==
    IF diceRoll.success
    THEN awardSkillPoints([skills EXCEPT ![appliedSkill].points = @ - spentPoints],
                          appliedSkill, diceRoll)
    ELSE skills

\* The award left for after the oracle's answer.
SkillsAfterRollDeferringAward(skills, appliedSkill, spentPoints, diceRoll) ==
    IF spentPoints > 0
    THEN [skills EXCEPT ![appliedSkill].points = @ - spentPoints]
    ELSE skills

\* The skills after the wager deduction and the award of the roll.
SkillsAfterRoll(skills, appliedSkill, spentPoints, diceRoll) ==
    LET deducted == IF spentPoints > 0
                    THEN [skills EXCEPT ![appliedSkill].points = @ - spentPoints]
                    ELSE skills
    IN awardSkillPoints(deducted, appliedSkill, diceRoll)

\* The timer of setTimeout(() => showApiKeyModal(), 2000); the auto-save timers
\* carry the number of their call.
ApiKeyModalTimer == -1

\* The failures whose error.message includes 'API key'.
KindsNamingApiKey == {"auth", "nokey"}

\* The catch block of processPlayerAction after showError: the timers pending.
CatchTimers(kind) ==
    IF kind \in KindsNamingApiKey THEN timers \cup {ApiKeyModalTimer} ELSE timers

\* A variant of the guard that lets every call through.
NeverRejected == FALSE

\* The in-flight guard of processPlayerAction.
Rejected == isProcessingAction

\* processPlayerAction from the guard to await callAI, for a call that carries
\* a wager decision or no difficulty (difficulty <<>>); pending is the value the
\* calling handler leaves in pendingAction.  The wager prompt closes with it.
\* rollDice(20) returns one of rolls.
processPlayerActionRolling(actionText, difficulty, spentPoints, pending, rolls) ==
    /\ pendingAction' = pending
    /\ sliderMax' = IF pending = Null THEN 0 ELSE sliderMax
    /\ skillNameDisplay' = IF pending = Null THEN "" ELSE skillNameDisplay
    /\ IF Rejected
       THEN /\ guardHit' = TRUE
            /\ UNCHANGED << gameState, isProcessingAction, actionsDisabled,
                            submitDisabled, turns, calls, errorMessage >>
       ELSE IF gameState = Null
       THEN /\ errorMessage' = NoGameTypeError
            /\ isProcessingAction' = FALSE
            /\ actionsDisabled' = FALSE
            /\ submitDisabled' = FALSE
            /\ UNCHANGED << gameState, turns, guardHit, calls >>
       ELSE
         /\ calls < MaxCalls
         /\ calls' = calls + 1
         /\ guardHit' = FALSE
         /\ \E roll \in rolls :
              LET rolled == difficulty # <<>>
                  appliedSkill == IF rolled THEN SkillTable[actionText]
                                  ELSE "none"
                  diceRoll == IF rolled
                              THEN performSkillCheck(roll, difficulty,
                                                     spentPoints, appliedSkill)
                              ELSE Null
                  started == IF rolled
                             THEN [gameState EXCEPT !.skills =
                                     SkillsAfterRoll(@, appliedSkill,
                                                     spentPoints, diceRoll)]
                             ELSE gameState
              IN /\ (~rolled => roll = 1)
                 /\ gameState' = started
                 /\ IF apiKey
                    THEN /\ turns' = Append(turns,
                                [ call |-> calls + 1,
                                  actionText |-> actionText,
                                  difficulty |-> difficulty,
                                  spentPoints |-> spentPoints,
                                  appliedSkill |-> appliedSkill,
                                  diceRoll |-> diceRoll,
                                  submitted |-> gameState ])
                         /\ isProcessingAction' = TRUE
                         /\ actionsDisabled' = TRUE
                         /\ submitDisabled' = TRUE
                         /\ errorMessage' = ""
                    ELSE /\ turns' = turns
                         /\ isProcessingAction' = FALSE
                         /\ actionsDisabled' = FALSE
                         /\ submitDisabled' = FALSE
                         /\ errorMessage' = ErrorMessage("nokey")
    /\ timers' = IF ~Rejected /\ gameState # Null /\ ~apiKey
                 THEN CatchTimers("nokey")
                 ELSE timers
    /\ UNCHANGED << initialized, newGames, apiKey, settings, saves, autoSaveTimeout >>

\* processPlayerAction with the rolls this model draws.
processPlayerAction(actionText, difficulty, spentPoints, pending) ==
    processPlayerActionRolling(actionText, difficulty, spentPoints, pending,
                               RollsDrawn)

\* A variant of the custom-action handler that submits the text as a Medium
\* action, so that it is staged for a wager.
CustomActionStaged(text) ==
    /\ initialized
    /\ ~submitDisabled
    /\ text \in CustomTexts
    /\ gameState # Null
    /\ StageAction(text, Medium)

\* #custom-action-form submitted with a non-empty text.
CustomAction(text) ==
    /\ initialized
    /\ ~submitDisabled
    /\ text \in CustomTexts
    /\ processPlayerAction(text, <<>>, 0, pendingAction)

\* The values of #points-slider the player picks: of 0 .. max, the values 0, 1
\* and max; a range input holds 0 when its max is below 0.
SliderValues == {0} \cup (0..sliderMax \cap {0, 1, sliderMax})

\* #spend-and-roll-btn
SpendAndRoll(points) ==
    /\ initialized
    /\ pendingAction # Null
    /\ points \in SliderValues
    /\ processPlayerAction(pendingAction.actionText, pendingAction.difficulty,
                           points, Null)

\* #skip-spend-btn
SkipSpend ==
    /\ initialized
    /\ pendingAction # Null
    /\ processPlayerAction(pendingAction.actionText, pendingAction.difficulty,
                           0, Null)

\* A variant of the cancel handler that goes on like the skip handler.
CancelActionAsSkip ==
    /\ initialized
    /\ pendingAction # Null
    /\ processPlayerAction(pendingAction.actionText, pendingAction.difficulty,
                           0, Null)

\* #cancel-action-btn
CancelAction ==
    /\ initialized
    /\ pendingAction # Null
    /\ pendingAction' = Null
    /\ sliderMax' = 0
    /\ skillNameDisplay' = ""
    /\ UNCHANGED << initialized, gameState, isProcessingAction,
                    actionsDisabled, submitDisabled, turns, guardHit, newGames,
                    calls, apiKey, settings, saves, autoSaveTimeout, timers, errorMessage >>

UserEntry(turn) == [role |-> "user", call |-> turn.call, action |-> turn.actionText]
AssistantEntry(turn, reply) == [role |-> "assistant", call |-> turn.call, reply |-> reply]

\* parsed.narrative.substring(0, 100) + '...'
ResultSummary(narrative) ==
    SubSeq(narrative, 1, Min(100, Len(narrative))) \o <<".", ".", ".">>

\* A variant of PushAction that appends the entry and drops the first one.
PushActionAtEnd(actionHistory, entry) ==
    LET grown == Append(actionHistory, entry) IN
    IF Len(grown) > maxActionHistory THEN SubSeq(grown, 2, Len(grown))
    ELSE grown

\* gameState.actionHistory.unshift(entry), then pop() above the cap.
PushAction(actionHistory, entry) ==
    LET grown == <<entry>> \o actionHistory IN
    IF Len(grown) > maxActionHistory THEN SubSeq(grown, 1, Len(grown) - 1)
    ELSE grown

\* A variant of scheduleAutoSave that starts a timer without clearing the
\* pending one.
ScheduledTimersStacking(id) == timers \cup {id}

\* scheduleAutoSave: the pending timer is cleared and a new one started.
ScheduledTimers(id) == (timers \ {autoSaveTimeout}) \cup {id}

\* A variant of the finally block that leaves the guard as it is.
FinallyKeepsGuard ==
    /\ isProcessingAction' = isProcessingAction
    /\ actionsDisabled' = FALSE
    /\ submitDisabled' = FALSE
    /\ guardHit' = FALSE

\* The finally block of processPlayerAction.
Finally ==
    /\ isProcessingAction' = FALSE
    /\ actionsDisabled' = FALSE
    /\ submitDisabled' = FALSE
    /\ guardHit' = FALSE

\* A variant of TurnSucceeds whose death branch shows the parsed options.
TurnSucceedsDeathKeepsOptions(i, r) ==
    /\ i \in 1..Len(turns)
    /\ r \in TurnReplies
    /\ LET turn == turns[i]
           pushed == [gameState EXCEPT !.conversationHistory =
                        pruneConversationHistory(
                            @ \o << UserEntry(turn), AssistantEntry(turn, r) >>)]
       IN IF r = 0
          THEN /\ gameState' = pushed
               /\ errorMessage' = ParseTypeError
               /\ UNCHANGED << autoSaveTimeout, timers >>
          ELSE LET parsed == Replies[r]
                   applied == applyStateUpdates(pushed, parsed.stateUpdate)
               IN IF parsed.isPlayerDead
                  THEN /\ gameState' =
                            [applied EXCEPT
                               !.stats.deathCount = @ + 1,
                               !.currentNarrative = parsed.narrative,
                               !.currentOptions = parsed.options]
                       /\ UNCHANGED << autoSaveTimeout, timers, errorMessage >>
                  ELSE /\ gameState' =
                            [applied EXCEPT
                               !.currentNarrative = parsed.narrative,
                               !.currentOptions = parsed.options,
                               !.actionHistory = PushAction(@,
                                   [action |-> turn.actionText,
                                    result |-> ResultSummary(parsed.narrative)])]
                       /\ timers' = ScheduledTimers(turn.call)
                       /\ autoSaveTimeout' = turn.call
                       /\ UNCHANGED errorMessage
    /\ turns' = Remove(turns, i)
    /\ Finally
    /\ UNCHANGED << initialized, pendingAction, sliderMax, skillNameDisplay,
                    newGames, calls,
                    apiKey, settings, saves >>

\* callAI returned to processPlayerAction: reply r of Replies, or (r = 0) a
\* response without text.
TurnSucceeds(i, r) ==
    /\ i \in 1..Len(turns)
    /\ r \in TurnReplies
    /\ LET turn == turns[i]
           pushed == [gameState EXCEPT !.conversationHistory =
                        pruneConversationHistory(
                            @ \o << UserEntry(turn), AssistantEntry(turn, r) >>)]
       IN IF r = 0
          THEN /\ gameState' = pushed
               /\ errorMessage' = ParseTypeError
               /\ UNCHANGED << autoSaveTimeout, timers >>
          ELSE LET parsed == Replies[r]
                   applied == applyStateUpdates(pushed, parsed.stateUpdate)
               IN IF parsed.isPlayerDead
                  THEN /\ gameState' =
                            [applied EXCEPT
                               !.stats.deathCount = @ + 1,
                               !.currentNarrative = parsed.narrative,
                               !.currentOptions = <<>>]
                       /\ UNCHANGED << autoSaveTimeout, timers, errorMessage >>
                  ELSE /\ gameState' =
                            [applied EXCEPT
                               !.currentNarrative = parsed.narrative,
                               !.currentOptions = parsed.options,
                               !.actionHistory = PushAction(@,
                                   [action |-> turn.actionText,
                                    result |-> ResultSummary(parsed.narrative)])]
                       /\ timers' = ScheduledTimers(turn.call)
                       /\ autoSaveTimeout' = turn.call
                       /\ UNCHANGED errorMessage
    /\ turns' = Remove(turns, i)
    /\ Finally
    /\ UNCHANGED << initialized, pendingAction, sliderMax, skillNameDisplay,
                    newGames, calls,
                    apiKey, settings, saves >>

\* callAI threw in processPlayerAction.
TurnFails(i, kind) ==
    /\ i \in 1..Len(turns)
    /\ kind \in FailureKinds
    /\ turns' = Remove(turns, i)
    /\ apiKey' = IF kind = "auth" THEN FALSE ELSE apiKey
    /\ errorMessage' = ErrorMessage(kind)
    /\ Finally
    /\ timers' = CatchTimers(kind)
    /\ UNCHANGED << initialized, gameState, pendingAction, sliderMax,
                    skillNameDisplay, newGames,
                    calls, settings, saves, autoSaveTimeout >>

\* The timer of the catch block fires: showApiKeyModal().
ShowApiKeyModal ==
    /\ ApiKeyModalTimer \in timers
    /\ timers' = timers \ {ApiKeyModalTimer}
    /\ UNCHANGED << initialized, gameState, isProcessingAction, pendingAction,
                    sliderMax, skillNameDisplay, actionsDisabled,
                    submitDisabled, turns, guardHit, newGames, calls, apiKey, settings,
                    saves, autoSaveTimeout, errorMessage >>

(* --------------------------- specification ---------------------------- *)
Next ==
    \/ InitializeGame
    \/ ApiKeySubmit
    \/ NewGameClick
    \/ \E i \in 1..MaxCalls, r \in OpeningReplies : NewGameSucceeds(i, r)
    \/ \E i \in 1..MaxCalls, kind \in FailureKinds : NewGameFails(i, kind)
    \/ OptionClick
    \/ \E text \in CustomTexts : CustomAction(text)
    \/ \E points \in 0..MaxWager : SpendAndRoll(points)
    \/ SkipSpend
    \/ CancelAction
    \/ \E i \in 1..MaxCalls, r \in TurnReplies : TurnSucceeds(i, r)
    \/ \E i \in 1..MaxCalls, kind \in FailureKinds : TurnFails(i, kind)
    \/ \E slot \in Slots : LoadGame(slot)
    \/ \E id \in 1..MaxCalls : AutoSaveTimer(id)
    \/ ShowApiKeyModal

Spec == Init /\ [][Next]_vars

(* --------------------------- the state reducer ------------------------ *)
\* Deltas applied to a game in one run of the reducer specification.
MaxDeltas == 3

\* State deltas as parseStateUpdate hands them to applyStateUpdates: clauses
\* that overshoot both ends of every range, a change of zero, an item first
\* mentioned by a negative change, and an item named like an inherited property.
DeltasDrawn ==
    { Null,
      [ship |-> -120],
      [ship |-> 40],
      [ship |-> 120],
      [fuel |-> -50],
      [fuel |-> 7],
      [distance |-> -1000000],
      [inventory |-> [iron |-> -3]],
      [inventory |-> [iron |-> 0]],
      [inventory |-> [gold |-> -2]],
      [inventory |-> [gold |-> 4, iron |-> 3]],
      [inventory |-> [constructor |-> 1]],
      [ship |-> -30, fuel |-> -3, inventory |-> [carbon |-> 5]] }

\* A game as startNewGame builds it, for any starting scenario.
ReducerInit ==
    /\ initialized = TRUE
    /\ \E s \in 1..Len(STARTING_SCENARIOS), randomDistance \in DistancesDrawn :
           gameState = NewGameState(STARTING_SCENARIOS[s], randomDistance)
    /\ isProcessingAction = FALSE
    /\ pendingAction = Null
    /\ sliderMax = 0
    /\ skillNameDisplay = ""
    /\ actionsDisabled = FALSE
    /\ submitDisabled = FALSE
    /\ turns = <<>>
    /\ guardHit = FALSE
    /\ newGames = <<>>
    /\ calls = 0
    /\ apiKey = TRUE
    /\ settings = [autoSave |-> TRUE]
    /\ saves = [s \in Slots |-> Null]
    /\ autoSaveTimeout = 0
    /\ timers = {}
    /\ errorMessage = ""

\* applyStateUpdates(updates) on the current game.
ApplyDelta(updates) ==
    /\ calls < MaxDeltas
    /\ calls' = calls + 1
    /\ gameState' = applyStateUpdates(gameState, updates)
    /\ UNCHANGED << initialized, isProcessingAction, pendingAction, sliderMax,
                    skillNameDisplay,
                    actionsDisabled, submitDisabled, turns, guardHit, newGames,
                    apiKey, settings, saves, autoSaveTimeout, timers, errorMessage >>

ReducerNext == \E updates \in DeltasDrawn : ApplyDelta(updates)

SpecReducer == ReducerInit /\ [][ReducerNext]_vars

(* ------------------------------ properties ---------------------------- *)
\* A step in which a processPlayerAction call gets as far as the guard.
GuardReached ==
    \/ \E points \in 0..MaxWager : SpendAndRoll(points)
    \/ SkipSpend
    \/ \E text \in CustomTexts : CustomAction(text)

\* A step that suspends a new turn at await callAI, and that turn.
TurnStarted == Len(turns') = Len(turns) + 1
StartedTurn == turns'[Len(turns')]

\* C1: at most one turn is in flight at any time, and a processPlayerAction
\* call that reaches the guard while a turn is awaiting the oracle is dropped:
\* it rolls nothing, moves no skill points, issues no oracle call and changes
\* no field of the game state.
C1_SingleTurnInFlight ==
    [][ /\ Len(turns') <= 1
        /\ (turns # <<>> /\ GuardReached) =>
               /\ gameState' = gameState
               /\ turns' = turns
               /\ calls' = calls ]_vars

\* A turn is awaiting the oracle and a call has been dropped at the guard.
C1_Witness == Len(turns) = 1 /\ isProcessingAction /\ guardHit

\* C2: while a turn is awaiting the oracle no other operation replaces or
\* mutates the game state, so the response is applied to the state the turn
\* was submitted against.
C2_NoOverlappingMutation ==
    [][ (turns # <<>> /\ turns' = turns) => gameState' = gameState ]_vars

\* C3: in every reachable state each assistant entry of conversationHistory is
\* directly preceded by the user entry of the same oracle call.
C3_RequestThenResponse ==
    gameState # Null =>
        LET history == gameState.conversationHistory IN
        \A k \in 1..Len(history) :
            history[k].role = "assistant" =>
                /\ k > 1
                /\ history[k - 1].role = "user"
                /\ history[k - 1].call = history[k].call

\* C4: when the oracle call of a turn fails, every field of the game state,
\* the skill point balances included, has the value it had when the action was
\* submitted, and the turn is back at Idle.
C4_FailureLeavesStateUnmodified ==
    [][ \A i \in 1..Len(turns), kind \in FailureKinds :
            TurnFails(i, kind) =>
                /\ gameState' = turns[i].submitted
                /\ ~isProcessingAction'
                /\ turns' = <<>> ]_vars

\* A step in which the oracle call of turn i fails: callAI throws, or its
\* response carries no text.
OracleFailure(i) ==
    \/ \E kind \in FailureKinds : TurnFails(i, kind)
    \/ TurnSucceeds(i, 0)

\* C5: when the oracle call of a turn fails, currentNarrative, currentOptions,
\* conversationHistory and actionHistory are unchanged, no state delta is
\* applied and no auto-save is scheduled.
C5_FailureLeavesNarrativeAndHistory ==
    [][ \A i \in 1..Len(turns) :
            OracleFailure(i) =>
                /\ gameState'.currentNarrative = gameState.currentNarrative
                /\ gameState'.currentOptions = gameState.currentOptions
                /\ gameState'.conversationHistory = gameState.conversationHistory
                /\ gameState'.actionHistory = gameState.actionHistory
                /\ gameState'.ship = gameState.ship
                /\ gameState'.inventory = gameState.inventory
                /\ gameState'.currentLocation = gameState.currentLocation
                /\ timers' = timers
                /\ autoSaveTimeout' = autoSaveTimeout ]_vars

\* C6: the in-flight guard is released when a turn ends (Resolved, Dead or
\* aborted), it is never set while no turn is awaiting the oracle, and the next
\* action submitted after a turn has ended is accepted.
C6_GuardReleased ==
    [][ /\ Len(turns') < Len(turns) => ~isProcessingAction'
        /\ isProcessingAction' => turns' # <<>>
        /\ (turns = <<>> /\ gameState # Null /\ apiKey /\ GuardReached) =>
               /\ TurnStarted
               /\ isProcessingAction' ]_vars

\* A turn has reached Dead, none is in flight and the guard is released.
C6_Witness ==
    /\ gameState # Null
    /\ gameState.stats.deathCount > 0
    /\ turns = <<>>
    /\ ~isProcessingAction

\* C7: after applyStateUpdates with any delta, and so after any sequence of
\* deltas, ship.health is in [0,100], ship.fuel is at least 0 and every
\* inventory value is a number that is at least 0.
C7_ReducerBounds ==
    /\ gameState.ship.health \in 0..100
    /\ gameState.ship.fuel >= 0
    /\ \A item \in DOMAIN gameState.inventory :
           /\ gameState.inventory[item] # NaN
           /\ gameState.inventory[item] >= 0

\* C8: every skill's point balance is a non-negative integer in every
\* reachable state.
C8_SkillBalancesNonNegative ==
    gameState # Null =>
        \A s \in Skills : gameState.skills[s].points >= 0

\* C9: on a wager decision of w points (w = 0 included) the roll uses bonus w,
\* exactly w points leave the classified skill's balance, and they are not
\* handed back when the roll fails.
C9_WagerDeductedBeforeRoll ==
    [][ (TurnStarted /\ StartedTurn.diceRoll # Null) =>
            LET turn == StartedTurn
                w == turn.spentPoints
                check == turn.diceRoll
                before == gameState.skills[turn.appliedSkill].points
                after == gameState'.skills[turn.appliedSkill].points
            IN /\ check.bonuses = w
               /\ check.total = check.roll + w
               /\ check.success =>
                      after - Max(1, check.total - check.dc) = before - w
               /\ ~check.success => after = before - w ]_vars

\* A turn in flight whose wager of at least one point was spent on a roll that
\* failed: the balance is the submitted balance less the wager.
C9_Witness ==
    \E i \in 1..Len(turns) :
        /\ turns[i].diceRoll # Null
        /\ turns[i].spentPoints > 0
        /\ ~turns[i].diceRoll.success
        /\ gameState.skills[turns[i].appliedSkill].points =
               turns[i].submitted.skills[turns[i].appliedSkill].points
                   - turns[i].spentPoints

\* C10: on a successful check exactly max(1, total - difficultyClass) points
\* are added to the balance of the skill that was wagered on and to no other;
\* on a failed check, critical or not, no points are added to any skill.
C10_SkillPointAward ==
    [][ (TurnStarted /\ StartedTurn.diceRoll # Null) =>
            LET turn == StartedTurn
                check == turn.diceRoll
                award == IF check.success
                         THEN IF check.total - check.dc >= 1
                              THEN check.total - check.dc ELSE 1
                         ELSE 0
            IN \A s \in Skills :
                   gameState'.skills[s].points =
                       IF s = turn.appliedSkill
                       THEN gameState.skills[s].points - turn.spentPoints + award
                       ELSE gameState.skills[s].points ]_vars

\* A turn in flight whose check succeeded with total = difficultyClass: the
\* floor of one point was awarded to the wagered skill.
C10_Witness ==
    \E i \in 1..Len(turns) :
        /\ turns[i].diceRoll # Null
        /\ turns[i].diceRoll.success
        /\ turns[i].diceRoll.total = turns[i].diceRoll.dc
        /\ gameState.skills[turns[i].appliedSkill].points =
               turns[i].submitted.skills[turns[i].appliedSkill].points
                   - turns[i].spentPoints + 1

(* ------------------ the dice resolver and the classifier --------------- *)
\* Math.random() takes the values 0/RandomSteps .. (RandomSteps - 1)/RandomSteps.
RandomSteps == 40

\* A variant of rollDice that leaves out the + 1.
rollDiceZeroBased(random) == (random * DiceSides) \div RandomSteps

\* rollDice(20) for Math.random() = random / RandomSteps.
rollDice(random) == (random * DiceSides) \div RandomSteps + 1

VeryHard == <<"V", "e", "r", "y", " ", "H", "a", "r", "d">>
EasyUpper == <<"E", "A", "S", "Y">>
Deadly == <<"D", "e", "a", "d", "l", "y">>
TextFightAndExplore ==
    << "E", "x", "p", "l", "o", "r", "e", " ", "t", "h", "e", " ", "c", "a",
       "v", "e", " ", "a", "n", "d", " ", "f", "i", "g", "h", "t" >>
TextRepairAndSearch ==
    << "S", "e", "a", "r", "c", "h", " ", "f", "o", "r", " ", "t", "o", "o",
       "l", "s", " ", "t", "o", " ", "r", "e", "p", "a", "i", "r", " ", "t",
       "h", "e", " ", "h", "u", "l", "l" >>
TextGatherAndLook == <<"L", "o", "o", "k", " ", "f", "o", "r", " ", "w", "a", "t", "e", "r">>
TextShout == <<"A", "T", "T", "A", "C", "K", "!">>
TextWhiteRock ==
    << "S", "t", "u", "d", "y", " ", "t", "h", "e", " ", "w", "h", "i", "t",
       "e", " ", "r", "o", "c", "k" >>

\* Difficulty strings parseOptions can hand over: the four tiers, a tier in
\* capitals and a word that is no tier.  None spells an inherited property.
TiersDrawn == {Easy, Medium, Hard, VeryHard, EasyUpper, Deadly}

\* Action texts: no keyword, one keyword, keywords of two categories in either
\* order, capitals, and a keyword inside another word ("hit" in "white").
TextsDrawn ==
    { TextRest, TextAttack, TextLook, TextFightAndExplore, TextRepairAndSearch,
      TextGatherAndLook, TextShout, TextWhiteRock }

\* An action staged for its wager decision in a loaded game: any text drawn,
\* any tier drawn.
ResolveInit ==
    /\ initialized = TRUE
    /\ gameState = PriorSave
    /\ isProcessingAction = FALSE
    /\ \E actionText \in TextsDrawn, difficulty \in TiersDrawn :
           pendingAction = [actionText |-> actionText, difficulty |-> difficulty]
    /\ sliderMax = MaxWager
    /\ skillNameDisplay = detectSkillFromAction(pendingAction.actionText)
    /\ actionsDisabled = FALSE
    /\ submitDisabled = FALSE
    /\ turns = <<>>
    /\ guardHit = FALSE
    /\ newGames = <<>>
    /\ calls = 0
    /\ apiKey = TRUE
    /\ settings = [autoSave |-> TRUE]
    /\ saves = [s \in Slots |-> PriorSave]
    /\ autoSaveTimeout = 0
    /\ timers = {}
    /\ errorMessage = ""

\* The classification and the roll of processPlayerAction for the staged
\* action, with bonus bonuses; turns holds the outcome.
Resolve(random, bonuses) ==
    /\ turns = <<>>
    /\ LET appliedSkill == detectSkillFromAction(pendingAction.actionText)
           diceRoll == performSkillCheck(rollDice(random), pendingAction.difficulty,
                                         bonuses, appliedSkill)
       IN turns' = << [ actionText |-> pendingAction.actionText,
                        difficulty |-> pendingAction.difficulty,
                        spentPoints |-> bonuses,
                        appliedSkill |-> appliedSkill,
                        diceRoll |-> diceRoll ] >>
    /\ UNCHANGED << initialized, gameState, isProcessingAction, pendingAction,
                    sliderMax, skillNameDisplay, actionsDisabled,
                    submitDisabled, guardHit,
                    newGames, calls, apiKey, settings, saves, autoSaveTimeout, timers,
                    errorMessage >>

ResolveNext ==
    \E random \in 0..(RandomSteps - 1), bonuses \in 0..MaxWager :
        Resolve(random, bonuses)

SpecResolve == ResolveInit /\ [][ResolveNext]_vars

\* The lower-cased tier of the resolved action.
ResolvedTier == toLowerCase(turns[1].difficulty)

\* C11: for every difficulty tier and every bonus the raw roll is an integer in
\* 1..20, total = roll + bonus, and success holds exactly when total is at
\* least the tier's difficulty class.
C11_DiceResolver ==
    turns # <<>> =>
        LET check == turns[1].diceRoll
            threshold == CASE ResolvedTier = TierEasy -> 6
                           [] ResolvedTier = TierMedium -> 9
                           [] ResolvedTier = TierHard -> 13
                           [] ResolvedTier = TierVeryHard -> 17
                           [] OTHER -> check.dc
        IN /\ check.roll \in 1..20
           /\ check.bonuses = turns[1].spentPoints
           /\ check.total = check.roll + turns[1].spentPoints
           /\ check.dc = threshold
           /\ check.success <=> (check.total >= threshold)

\* A check that succeeds only through its bonus, with total = difficulty class.
C11_Witness ==
    /\ turns # <<>>
    /\ turns[1].spentPoints > 0
    /\ turns[1].diceRoll.total = turns[1].diceRoll.dc
    /\ turns[1].diceRoll.success

\* C12: critical success and critical failure depend on the raw roll only: a
\* roll of 20 is a critical success and a roll of 1 a critical failure for
\* every bonus and tier, also when 1 + bonus meets the difficulty class.
C12_CriticalsByRawRoll ==
    turns # <<>> =>
        LET check == turns[1].diceRoll
        IN /\ check.criticalSuccess <=> (check.roll = 20)
           /\ check.criticalFailure <=> (check.roll = 1)

\* A roll of 1 whose bonus meets the difficulty class: success and critical
\* failure together.
C12_Witness ==
    /\ turns # <<>>
    /\ turns[1].diceRoll.roll = 1
    /\ turns[1].spentPoints > 0
    /\ turns[1].diceRoll.success
    /\ turns[1].diceRoll.criticalFailure

\* The tiers DIFFICULTY_DC has an entry for.
KnownTiers == {TierEasy, TierMedium, TierHard, TierVeryHard}

\* C13: a check whose tier string is not in the table is resolved against the
\* difficulty class the table gives the medium tier.
C13_UnknownTierIsMedium ==
    (turns # <<>> /\ ResolvedTier \notin KnownTiers) =>
        turns[1].diceRoll.dc = DifficultyClass(Medium)

\* C14: the difficulty classes used are Easy 8, Medium 12, Hard 16 and
\* Very Hard 20.
C14_DocumentedDifficultyClasses ==
    turns # <<>> =>
        LET dc == turns[1].diceRoll.dc
        IN /\ (ResolvedTier = TierEasy => dc = 8)
           /\ (ResolvedTier = TierMedium => dc = 12)
           /\ (ResolvedTier = TierHard => dc = 16)
           /\ (ResolvedTier = TierVeryHard => dc = 20)

\* A keyword of the list occurs in the lower-cased text of the resolved action.
Mentions(keywords) ==
    LET text == toLowerCase(turns[1].actionText) IN
    \E k \in 1..Len(keywords) :
        \E i \in 1..(Len(text) - Len(keywords[k]) + 1) :
            SubSeq(text, i, i + Len(keywords[k]) - 1) = keywords[k]

\* C15: the classifier returns the first category, in the order combat,
\* technology, survival, exploration, with a keyword occurring in the
\* lower-cased text, and exploration when no keyword occurs; a text with a combat
\* keyword and an exploration keyword is classified as combat.
C15_ClassifierPrecedence ==
    turns # <<>> =>
        LET skill == turns[1].appliedSkill
        IN /\ Mentions(combatKeywords) => skill = "combat"
           /\ (~Mentions(combatKeywords) /\ Mentions(technologyKeywords))
                  => skill = "technology"
           /\ (~Mentions(combatKeywords) /\ ~Mentions(technologyKeywords)
                  /\ Mentions(survivalKeywords)) => skill = "survival"
           /\ (~Mentions(combatKeywords) /\ ~Mentions(technologyKeywords)
                  /\ ~Mentions(survivalKeywords)) => skill = "exploration"

\* A text whose exploration keyword comes before its combat keyword.
C15_Witness ==
    /\ turns # <<>>
    /\ turns[1].actionText = TextFightAndExplore
    /\ Mentions(combatKeywords)
    /\ Mentions(explorationKeywords)
    /\ turns[1].appliedSkill = "combat"

\* A step in which a wager decision of the prompt reaches processPlayerAction.
WagerDecision ==
    \/ \E points \in 0..MaxWager : SpendAndRoll(points)
    \/ SkipSpend

\* C16: the skill shown in the wager prompt is the skill the wager is deducted
\* from and the earned points are credited to, whatever was submitted before
\* the decision: the turn's applied skill is the shown one and no other
\* skill's balance moves.
C16_SkillClassifiedConsistently ==
    [][ (WagerDecision /\ ~isProcessingAction /\ gameState # Null) =>
            /\ \A s \in Skills \ {skillNameDisplay} :
                   gameState'.skills[s] = gameState.skills[s]
            /\ TurnStarted => StartedTurn.appliedSkill = skillNameDisplay
            /\ TurnStarted =>
                   gameState'.skills[skillNameDisplay].points =
                       gameState.skills[skillNameDisplay].points
                       - StartedTurn.spentPoints
                       + (IF StartedTurn.diceRoll.success
                          THEN Max(1, StartedTurn.diceRoll.total
                                      - StartedTurn.diceRoll.dc)
                          ELSE 0) ]_vars

\* A combat turn awaiting the oracle whose successful roll was credited to
\* combat, the exploration balance being as submitted.
C16_Witness ==
    \E i \in 1..Len(turns) :
        /\ turns[i].actionText = TextAttack
        /\ turns[i].appliedSkill = "combat"
        /\ turns[i].diceRoll.success
        /\ gameState.skills["combat"].points >
               turns[i].submitted.skills["combat"].points
        /\ gameState.skills["exploration"].points =
               turns[i].submitted.skills["exploration"].points

\* C17: an action submitted with a difficulty and no wager decision only
\* stages pendingAction and opens the wager prompt, replacing an action staged
\* before: the step rolls nothing, moves no skill points and calls no oracle,
\* and a turn with a roll starts only at a wager decision.
C17_StagingOnly ==
    [][ /\ OptionClick =>
              /\ \E i \in 1..Len(gameState.currentOptions) :
                     pendingAction' =
                         [actionText |-> gameState.currentOptions[i].text,
                          difficulty |-> gameState.currentOptions[i].difficulty]
              /\ gameState' = gameState
              /\ calls' = calls
              /\ turns' = turns
              /\ isProcessingAction' = isProcessingAction
        /\ (TurnStarted /\ StartedTurn.diceRoll # Null) => WagerDecision ]_vars

\* The option "Attack the drone" staged in a loaded game with nothing rolled:
\* no turn in flight, no oracle call made, the game state as it was loaded.
C17_Witness ==
    /\ pendingAction # Null
    /\ pendingAction.actionText = TextAttack
    /\ turns = <<>>
    /\ calls = 0
    /\ gameState = PriorSave

\* C18: cancelling the wager prompt discards the pending action and nothing
\* else: pendingAction becomes null, no field of the game state changes, so
\* that with the staging step, which changes none either, every field has the
\* value it had before the action was submitted; no oracle call is made, no
\* turn started or resolved, nothing saved.
C18_CancelDiscards ==
    [][ /\ CancelAction =>
              /\ pendingAction' = Null
              /\ gameState' = gameState
              /\ calls' = calls
              /\ turns' = turns
              /\ newGames' = newGames
              /\ saves' = saves
              /\ timers' = timers
              /\ isProcessingAction' = isProcessingAction
        /\ OptionClick => gameState' = gameState ]_vars

\* A staged action with its prompt open while a turn awaits the oracle: the
\* cancel button can be pressed here, and the turn must stay as it is.
C18_Witness ==
    /\ initialized
    /\ pendingAction # Null
    /\ turns # <<>>
    /\ isProcessingAction

\* The oracle call of turn i returns or throws.
TurnResolves(i) ==
    \/ \E r \in TurnReplies : TurnSucceeds(i, r)
    \/ \E kind \in FailureKinds : TurnFails(i, kind)

\* C19: an action submitted without a difficulty goes directly to the oracle
\* call: the submission opens no wager prompt, rolls no dice and changes no
\* field of the game state, the turn it starts carries no roll and no wager,
\* and the resolution of that turn changes no skill balance.
C19_NoDifficultyNoRoll ==
    [][ /\ \A text \in CustomTexts :
              CustomAction(text) =>
                  /\ pendingAction' = pendingAction
                  /\ sliderMax' = sliderMax
                  /\ skillNameDisplay' = skillNameDisplay
                  /\ gameState' = gameState
                  /\ (~isProcessingAction /\ gameState # Null /\ apiKey) =>
                         /\ TurnStarted
                         /\ calls' = calls + 1
                         /\ StartedTurn.actionText = text
                         /\ StartedTurn.diceRoll = Null
                         /\ StartedTurn.spentPoints = 0
        /\ \A i \in 1..Len(turns) :
              (turns[i].diceRoll = Null /\ TurnResolves(i)) =>
                  gameState'.skills = gameState.skills ]_vars

\* The custom action "wait" awaiting the oracle without a roll, no prompt
\* open, the game state as it was submitted.
C19_Witness ==
    /\ pendingAction = Null
    /\ \E i \in 1..Len(turns) :
           /\ turns[i].actionText = TextWait
           /\ turns[i].diceRoll = Null
           /\ gameState = turns[i].submitted

\* C20: a turn whose response is detected as death sets currentOptions to
\* empty, increments stats.deathCount by exactly one and sets currentNarrative
\* to the parsed narrative of that response.
C20_DeathTurn ==
    [][ \A i \in 1..Len(turns), r \in 1..Len(Replies) :
            (TurnSucceeds(i, r) /\ Replies[r].isPlayerDead) =>
                /\ gameState'.currentOptions = <<>>
                /\ gameState'.stats.deathCount = gameState.stats.deathCount + 1
                /\ gameState'.currentNarrative = Replies[r].narrative ]_vars

\* The state a death turn leaves: one death counted, the death narrative
\* shown, no options, no turn in flight.
C20_Witness ==
    /\ gameState # Null
    /\ gameState.stats.deathCount = 1
    /\ gameState.currentOptions = <<>>
    /\ gameState.currentNarrative = NarrativeDied
    /\ turns = <<>>

(* ------------------------- a long-running game ------------------------ *)
\* An auto-save left by an earlier session after 50 turns: "Attack the drone"
\* (Hard, failed) and then 49 times "Rest" (Easy, no wager, roll 8, two points
\* each), every response being the first reply.  The conversation history has
\* been pruned to the last ten turns, whose calls are numbered -9 .. 0, and the
\* action history is at its cap.
LongSave ==
    [ currentLocation |-> [distanceFromCenter |-> 650000],
      ship |-> [health |-> 100, fuel |-> 0],
      inventory |-> [carbon |-> 0, iron |-> 153, plutonium |-> 0,
                     heridium |-> 0, zinc |-> 0, titanium |-> 0],
      conversationHistory |->
          [k \in 1..maxConversationHistory |->
              IF k % 2 = 1
              THEN [role |-> "user", call |-> (k + 1) \div 2 - 10,
                    action |-> TextRest]
              ELSE [role |-> "assistant", call |-> k \div 2 - 10, reply |-> 1]],
      currentNarrative |-> Replies[1].narrative,
      currentOptions |-> Replies[1].options,
      stats |-> [resourcesGathered |-> 153, deathCount |-> 0],
      skills |-> [s \in Skills |-> [points |-> IF s = "exploration" THEN 98 ELSE 0]],
      actionHistory |->
          [k \in 1..maxActionHistory |->
              [action |-> IF k = maxActionHistory THEN TextAttack ELSE TextRest,
               result |-> Replies[1].narrative \o <<".", ".", ".">>]] ]

\* A session that finds this auto-save and a stored API key.
LongInit ==
    /\ initialized = FALSE
    /\ gameState = Null
    /\ isProcessingAction = FALSE
    /\ pendingAction = Null
    /\ sliderMax = 0
    /\ skillNameDisplay = ""
    /\ actionsDisabled = FALSE
    /\ submitDisabled = FALSE
    /\ turns = <<>>
    /\ guardHit = FALSE
    /\ newGames = <<>>
    /\ calls = 0
    /\ apiKey = TRUE
    /\ settings = [autoSave |-> TRUE]
    /\ saves = [s \in Slots |-> LongSave]
    /\ autoSaveTimeout = 0
    /\ timers = {}
    /\ errorMessage = ""

SpecLong == LongInit /\ [][Next]_vars

\* C22: the conversation history never holds more than 20 entries, after any
\* number of turns and new-game starts, and a turn that takes it over the cap
\* keeps the newest 20 entries in their order.
C22_HistoryCap ==
    gameState # Null =>
        Len(gameState.conversationHistory) <= maxConversationHistory

\* The entries of a conversation history, as a set.
Entries(history) == {history[k] : k \in 1..Len(history)}

\* C23: a save written after the conversation history was pruned still holds
\* the full history: when the game of the stored snapshot is saved again, no
\* message of the stored snapshot is missing from the new one.
C23_SaveKeepsFullHistory ==
    [][ \A id \in 1..MaxCalls :
            (/\ AutoSaveTimer(id)
             /\ gameState # Null
             /\ saves[AutoSaveSlot] # Null
             /\ Entries(gameState.conversationHistory)
                    \cap Entries(saves[AutoSaveSlot].conversationHistory) # {})
            => Entries(saves[AutoSaveSlot].conversationHistory)
                   \subseteq Entries(saves'[AutoSaveSlot].conversationHistory)
      ]_vars

(* ---------------------- turns on a loaded game ------------------------ *)
\* A session that has loaded the short or the long auto-save and plays turns.
TurnsInit ==
    /\ initialized = TRUE
    /\ gameState \in {PriorSave, LongSave}
    /\ isProcessingAction = FALSE
    /\ pendingAction = Null
    /\ sliderMax = 0
    /\ skillNameDisplay = ""
    /\ actionsDisabled = FALSE
    /\ submitDisabled = FALSE
    /\ turns = <<>>
    /\ guardHit = FALSE
    /\ newGames = <<>>
    /\ calls = 0
    /\ apiKey = TRUE
    /\ settings = [autoSave |-> TRUE]
    /\ saves = [s \in Slots |-> gameState]
    /\ autoSaveTimeout = 0
    /\ timers = {}
    /\ errorMessage = ""

TurnsNext ==
    \/ OptionClick
    \/ \E text \in CustomTexts : CustomAction(text)
    \/ \E points \in 0..MaxWager : SpendAndRoll(points)
    \/ SkipSpend
    \/ CancelAction
    \/ \E i \in 1..MaxCalls, r \in TurnReplies : TurnSucceeds(i, r)
    \/ \E i \in 1..MaxCalls, kind \in FailureKinds : TurnFails(i, kind)
    \/ \E id \in 1..MaxCalls : AutoSaveTimer(id)
    \/ ShowApiKeyModal

SpecTurns == TurnsInit /\ [][TurnsNext]_vars

\* C24: the action history holds at most 50 entries, most recent first: a turn
\* that is resolved puts its action at the front, keeps the earlier entries in
\* their order behind it and, above 50 entries, drops the last one.
C24_ActionHistoryCap ==
    [][ \A i \in 1..Len(turns), r \in 1..Len(Replies) :
            (TurnSucceeds(i, r) /\ ~Replies[r].isPlayerDead) =>
                LET old == gameState.actionHistory
                    new == gameState'.actionHistory
                IN /\ Len(new) = Min(maxActionHistory, Len(old) + 1)
                   /\ Len(new) <= 50
                   /\ new[1].action = turns[i].actionText
                   /\ \A k \in 2..Len(new) : new[k] = old[k - 1] ]_vars

\* The long game after one more turn: 50 entries, the custom action in front,
\* the oldest entry ("Attack the drone") gone.
C24_Witness ==
    /\ Len(gameState.actionHistory) = maxActionHistory
    /\ gameState.actionHistory[1].action = TextWait
    /\ gameState.actionHistory[maxActionHistory].action = TextRest

\* The fields applyStateUpdates writes, of a game state.
Health(gs) == gs.ship.health
Fuel(gs) == gs.ship.fuel
Distance(gs) == gs.currentLocation.distanceFromCenter
Gathered(gs) == gs.stats.resourcesGathered

\* The delta names the field, or the inventory item.
Names(updates, field) == updates # Null /\ field \in DOMAIN updates
NamesItem(updates, item) ==
    Names(updates, "inventory") /\ item \in DOMAIN updates.inventory

\* C25: applyStateUpdates does nothing for a null delta and otherwise changes
\* only the fields the delta names: ship health, fuel and distance change only
\* under their own clause, an inventory value only when the delta names the
\* item, resourcesGathered only under an inventory clause, and nothing else
\* of the game state changes.
C25_ReducerFrame ==
    [][ \A updates \in DeltasDrawn :
            ApplyDelta(updates) =>
                /\ updates = Null => gameState' = gameState
                /\ ~Names(updates, "ship") => Health(gameState') = Health(gameState)
                /\ ~Names(updates, "fuel") => Fuel(gameState') = Fuel(gameState)
                /\ ~Names(updates, "distance") =>
                       /\ Distance(gameState') = Distance(gameState)
                       /\ DOMAIN gameState'.stats = DOMAIN gameState.stats
                /\ ~Names(updates, "inventory") =>
                       /\ gameState'.inventory = gameState.inventory
                       /\ Gathered(gameState') = Gathered(gameState)
                /\ \A item \in DOMAIN gameState.inventory :
                       ~NamesItem(updates, item) =>
                           /\ item \in DOMAIN gameState'.inventory
                           /\ gameState'.inventory[item] = gameState.inventory[item]
                /\ \A item \in DOMAIN gameState'.inventory \ DOMAIN gameState.inventory :
                       NamesItem(updates, item)
                /\ gameState'.stats.deathCount = gameState.stats.deathCount
                /\ gameState'.skills = gameState.skills
                /\ gameState'.conversationHistory = gameState.conversationHistory
                /\ gameState'.actionHistory = gameState.actionHistory
                /\ gameState'.currentNarrative = gameState.currentNarrative
                /\ gameState'.currentOptions = gameState.currentOptions ]_vars

\* A state only ship clauses have touched: the health moved off every starting
\* value while fuel, inventory and resourcesGathered are those of a scenario.
C25_Witness ==
    /\ calls > 0
    /\ Health(gameState) = 70
    /\ \E s \in 1..Len(STARTING_SCENARIOS) :
           /\ Fuel(gameState) = STARTING_SCENARIOS[s].fuel
           /\ gameState.inventory =
                  Spread(createInitialGameState.inventory,
                         STARTING_SCENARIOS[s].inventory)
           /\ STARTING_SCENARIOS[s].shipHealth = 30
    /\ Gathered(gameState) = 0

\* The amount a delta adds to one item, when it is positive.
Gain(updates, item) ==
    IF NamesItem(updates, item) /\ updates.inventory[item] > 0
    THEN updates.inventory[item]
    ELSE 0

\* C26: resourcesGathered is a monotonic lifetime counter: a delta raises it
\* by exactly the sum of its positive inventory amounts, also for an item that
\* did not exist before; negative and zero amounts leave it unchanged, and it
\* never decreases over any sequence of deltas.
C26_ResourcesGatheredMonotonic ==
    [][ \A updates \in DeltasDrawn :
            ApplyDelta(updates) =>
                /\ Gathered(gameState') =
                       Gathered(gameState)
                       + Gain(updates, "carbon") + Gain(updates, "iron")
                       + Gain(updates, "gold") + Gain(updates, "constructor")
                /\ Gathered(gameState') >= Gathered(gameState) ]_vars

\* Gold, absent from the initial inventory, was gained (with iron) and then
\* partly lost: the counter still shows the seven units gained.
C26_Witness ==
    /\ "gold" \in DOMAIN gameState.inventory
    /\ gameState.inventory["gold"] = 2
    /\ Gathered(gameState) = 7

(* ---------------------------- the credential --------------------------- *)
\* C27: an oracle call rejected with status 401, in a turn or in the opening
\* of a new game, removes the stored credential and schedules the credential
\* prompt; every other failure of an oracle call leaves the stored credential
\* as it was.
C27_CredentialFailure ==
    [][ \A i \in 1..MaxCalls :
            /\ (TurnFails(i, "auth") \/ NewGameFails(i, "auth")) =>
                   /\ apiKey' = FALSE
                   /\ ApiKeyModalTimer \in timers'
            /\ \A kind \in FailureKinds \ {"auth"} :
                   (TurnFails(i, kind) \/ NewGameFails(i, kind)) =>
                       apiKey' = apiKey ]_vars

(* ------------------------- the auto-save timer ------------------------- *)
\* The auto-save timers that are pending.
PendingAutoSaves == timers \cap 1..MaxCalls

\* C28: auto-persistence is debounced: at most one auto-save timer is pending
\* at any time, and a turn that resolves without death and without an
\* exception cancels the pending timer and starts a new one, which is then
\* the only one pending.
C28_Debounce ==
    [][ /\ Cardinality(PendingAutoSaves') <= 1
        /\ \A i \in 1..MaxCalls, r \in TurnReplies \ {0} :
              (TurnSucceeds(i, r) /\ ~Replies[r].isPlayerDead) =>
                  /\ turns[i].call \notin timers
                  /\ PendingAutoSaves' = {turns[i].call}
                  /\ autoSaveTimeout' = turns[i].call ]_vars

\* Two turns resolved on the loaded game; the timer of the first never fired
\* (the slot still holds the loaded snapshot) and only the timer of the second
\* is pending.
C28_Witness ==
    /\ gameState # Null
    /\ saves[AutoSaveSlot] = PriorSave
    /\ Len(gameState.actionHistory) = Len(PriorSave.actionHistory) + 2
    /\ PendingAutoSaves = {autoSaveTimeout}

(* ----------------------------- persistence ----------------------------- *)
maxSaveSize == 4718592

\* saveString.length as drawn here: a short snapshot, one exactly at the cap,
\* one a character over it.  The length depends on texts the state here does
\* not carry (planet names, the full narratives of the history).
LengthsDrawn == {2, maxSaveSize, maxSaveSize + 1}

\* The save dialog offers the manual slots; one of the five is drawn.
ManualSlots == {1}
PersistSlots == Slots \cup ManualSlots

\* A variant of saveGame that writes the slot before it tests the length.
saveGameOfLengthWritingFirst(slotNumber, gs, length) ==
    IF gs = Null
    THEN [saves |-> saves, returned |-> FALSE, error |-> "No game to save"]
    ELSE IF length > maxSaveSize
         THEN [saves |-> saveGame(slotNumber, gs), returned |-> FALSE,
               error |-> "Failed to save: Save file too large"]
         ELSE [saves |-> saveGame(slotNumber, gs), returned |-> TRUE,
               error |-> errorMessage]

\* saveGame(slotNumber) when saveString has the given length: the slots
\* afterwards, the value returned and the text of #error-message.
saveGameOfLength(slotNumber, gs, length) ==
    IF gs = Null
    THEN [saves |-> saves, returned |-> FALSE, error |-> "No game to save"]
    ELSE IF length > maxSaveSize
         THEN [saves |-> saves, returned |-> FALSE,
               error |-> "Failed to save: Save file too large"]
         ELSE [saves |-> saveGame(slotNumber, gs), returned |-> TRUE,
               error |-> errorMessage]

\* A variant of autoSave that does not read the setting.
autoSaveOfLengthIgnoringSetting(gs, length) ==
    IF gs = Null
    THEN [saves |-> saves, returned |-> FALSE, error |-> errorMessage]
    ELSE saveGameOfLength(AutoSaveSlot, gs, length)

\* autoSave() when the snapshot would serialise to the given length.
autoSaveOfLength(gs, length) ==
    IF ~settings.autoSave \/ gs = Null
    THEN [saves |-> saves, returned |-> FALSE, error |-> errorMessage]
    ELSE saveGameOfLength(AutoSaveSlot, gs, length)

\* The timer started by scheduleAutoSave fires.
AutoSaveTimerOfLength(id, length) ==
    /\ id \in timers
    /\ timers' = timers \ {id}
    /\ saves' = autoSaveOfLength(gameState, length).saves
    /\ errorMessage' = autoSaveOfLength(gameState, length).error
    /\ UNCHANGED << initialized, gameState, isProcessingAction, pendingAction,
                    sliderMax, skillNameDisplay, actionsDisabled,
                    submitDisabled, turns, guardHit,
                    newGames, calls, apiKey, settings, autoSaveTimeout >>

\* The timer of showSuccessMessage, which hides #error-message after 2 s.
SuccessHideTimer == -2

\* A click on a slot of the save dialog, confirmed when the slot is filled.
SaveSlotClick(slot, length) ==
    /\ initialized
    /\ slot \in ManualSlots
    /\ LET saved == saveGameOfLength(slot, gameState, length)
       IN /\ saves' = saved.saves
          /\ errorMessage' = IF saved.returned THEN "Game saved!" ELSE saved.error
          /\ timers' = IF saved.returned THEN timers \cup {SuccessHideTimer}
                       ELSE timers
    /\ UNCHANGED << initialized, gameState, isProcessingAction, pendingAction,
                    sliderMax, skillNameDisplay, actionsDisabled,
                    submitDisabled, turns, guardHit,
                    newGames, calls, apiKey, settings, autoSaveTimeout >>

\* The timer of showSuccessMessage fires.
HideSuccessMessage ==
    /\ SuccessHideTimer \in timers
    /\ timers' = timers \ {SuccessHideTimer}
    /\ errorMessage' = ""
    /\ UNCHANGED << initialized, gameState, isProcessingAction, pendingAction,
                    sliderMax, skillNameDisplay, actionsDisabled,
                    submitDisabled, turns, guardHit,
                    newGames, calls, apiKey, settings, saves, autoSaveTimeout >>

\* #auto-save-toggle changes.
AutoSaveToggle(checked) ==
    /\ initialized
    /\ settings' = [settings EXCEPT !.autoSave = checked]
    /\ UNCHANGED << initialized, gameState, isProcessingAction, pendingAction,
                    sliderMax, skillNameDisplay, actionsDisabled,
                    submitDisabled, turns, guardHit, newGames, calls, apiKey,
                    saves, autoSaveTimeout, timers, errorMessage >>

\* beforeunload, after which the page is gone: what remains is localStorage,
\* and the next page load starts from it.
Unload(length) ==
    /\ initialized
    /\ saves' = IF gameState # Null
                THEN autoSaveOfLength(gameState, length).saves
                ELSE saves
    /\ initialized' = FALSE
    /\ gameState' = Null
    /\ isProcessingAction' = FALSE
    /\ pendingAction' = Null
    /\ sliderMax' = 0
    /\ skillNameDisplay' = ""
    /\ actionsDisabled' = FALSE
    /\ submitDisabled' = FALSE
    /\ turns' = <<>>
    /\ guardHit' = FALSE
    /\ newGames' = <<>>
    /\ autoSaveTimeout' = 0
    /\ timers' = {}
    /\ errorMessage' = ""
    /\ UNCHANGED << calls, apiKey, settings >>

\* A session on a profile that holds a key, the auto-save of PriorSave and
\* perhaps a manual save of the long game: the welcome-back dialog is still
\* open (no game yet) or a slot was loaded, possibly after a turn of this
\* session resolved and left its auto-save timer pending.
PersistInit ==
    /\ initialized = TRUE
    /\ saves \in [PersistSlots -> {Null, PriorSave, LongSave}]
    /\ saves[AutoSaveSlot] = PriorSave
    /\ \A s \in ManualSlots : saves[s] \in {Null, LongSave}
    /\ gameState \in {Null} \cup {saves[s] : s \in PersistSlots}
    /\ timers \in (IF gameState = Null THEN {{}} ELSE {{}, {1}})
    /\ autoSaveTimeout = (IF timers = {} THEN 0 ELSE 1)
    /\ calls = autoSaveTimeout
    /\ isProcessingAction = FALSE
    /\ pendingAction = Null
    /\ sliderMax = 0
    /\ skillNameDisplay = ""
    /\ actionsDisabled = FALSE
    /\ submitDisabled = FALSE
    /\ turns = <<>>
    /\ guardHit = FALSE
    /\ newGames = <<>>
    /\ apiKey = TRUE
    /\ settings \in [autoSave : BOOLEAN]
    /\ errorMessage = ""

PersistNext ==
    \/ InitializeGame
    \/ \E slot \in PersistSlots : LoadGame(slot)
    \/ \E id \in 1..MaxCalls, length \in LengthsDrawn :
           AutoSaveTimerOfLength(id, length)
    \/ \E slot \in ManualSlots, length \in LengthsDrawn :
           SaveSlotClick(slot, length)
    \/ HideSuccessMessage
    \/ \E checked \in BOOLEAN : AutoSaveToggle(checked)
    \/ \E length \in LengthsDrawn : Unload(length)

SpecPersist == PersistInit /\ [][PersistNext]_vars

\* C29: at page unload, whenever a game state exists, the game state is
\* written to the auto-save slot (when it fits under the size cap), whatever
\* timers are pending.
C29_UnloadFlush ==
    [][ \A length \in LengthsDrawn :
            (Unload(length) /\ gameState # Null /\ length <= maxSaveSize) =>
                saves'[AutoSaveSlot] = JsonCopy(gameState) ]_vars

\* C29, amended: at page unload the game state is written to the auto-save
\* slot exactly when a game state exists, the auto-save setting is on and the
\* snapshot fits under the size cap, whatever timers are pending; otherwise
\* no slot changes.
C29_UnloadFlushWhenEnabled ==
    [][ \A length \in LengthsDrawn :
            Unload(length) =>
                saves' = IF /\ gameState # Null
                            /\ settings.autoSave
                            /\ length <= maxSaveSize
                         THEN [saves EXCEPT ![AutoSaveSlot] = JsonCopy(gameState)]
                         ELSE saves ]_vars

\* The page was unloaded in a session in which no turn was played, so that no
\* auto-save timer was ever started, and the long game loaded from the manual
\* slot is now in the auto-save slot.
C29_Witness ==
    /\ ~initialized
    /\ calls = 0
    /\ settings.autoSave
    /\ saves[AutoSaveSlot] = LongSave

SaveTooLarge == "Failed to save: Save file too large"

\* C30: a save whose serialised snapshot is longer than the cap fails:
\* saveGame returns false, the failure is shown instead of the success
\* message, and every slot holds what it held before, whether the save came
\* from the save dialog, the auto-save timer or the page unload.
C30_OversizeSaveFails ==
    [][ \A length \in LengthsDrawn :
            length > maxSaveSize =>
                /\ \A slot \in ManualSlots :
                      SaveSlotClick(slot, length) =>
                          /\ ~saveGameOfLength(slot, gameState, length).returned
                          /\ saves' = saves
                          /\ errorMessage' # "Game saved!"
                          /\ gameState # Null => errorMessage' = SaveTooLarge
                /\ \A id \in 1..MaxCalls :
                      AutoSaveTimerOfLength(id, length) =>
                          /\ saves' = saves
                          /\ (gameState # Null /\ settings.autoSave) =>
                                 errorMessage' = SaveTooLarge
                /\ Unload(length) => saves' = saves ]_vars

\* In a session without any auto-save timer the game loaded from the
\* auto-save slot was saved to the manual slot that holds the long game; the
\* save was refused as too large and the slot still holds the long game.
C30_Witness ==
    /\ calls = 0
    /\ gameState = PriorSave
    /\ errorMessage = SaveTooLarge
    /\ \A s \in ManualSlots : saves[s] = LongSave

(* -------------------------- the response parser ------------------------ *)
NewLine == "\n"
Digits == {"0", "1", "2", "3", "4", "5", "6", "7", "8", "9"}
Letters == {UpperCase[i] : i \in 1..26} \cup {LowerCase[i] : i \in 1..26}

\* The classes \d, \w and \s of the regular expressions.
IsDigit(c) == c \in Digits
IsWord(c) == c \in Letters \cup Digits \cup {"_"}
IsSpace(c) == c \in {" ", NewLine, "\t"}

\* String.prototype.trim.
RECURSIVE trimStart(_)
trimStart(text) ==
    IF text # <<>> /\ IsSpace(text[1]) THEN trimStart(Tail(text)) ELSE text

RECURSIVE trimEnd(_)
trimEnd(text) ==
    IF text # <<>> /\ IsSpace(text[Len(text)])
    THEN trimEnd(SubSeq(text, 1, Len(text) - 1))
    ELSE text

trim(text) == trimEnd(trimStart(text))

\* String.prototype.indexOf from a position, one-based; 0 when absent.
indexOf(text, searched, from) ==
    LET found == {i \in from..(Len(text) - Len(searched) + 1) :
                     SubSeq(text, i, i + Len(searched) - 1) = searched}
    IN IF found = {} THEN 0 ELSE CHOOSE i \in found : \A j \in found : i <= j

\* String.prototype.split on one character.
RECURSIVE split(_, _)
split(text, separator) ==
    LET at == indexOf(text, <<separator>>, 1) IN
    IF at = 0 THEN <<text>>
    ELSE <<SubSeq(text, 1, at - 1)>> \o
         split(SubSeq(text, at + 1, Len(text)), separator)

\* Array.prototype.join with one character.
RECURSIVE join(_, _)
join(lines, separator) ==
    IF lines = <<>> THEN <<>>
    ELSE IF Len(lines) = 1 THEN lines[1]
    ELSE lines[1] \o <<separator>> \o join(Tail(lines), separator)

\* The end of the run of characters of a class that starts at a position
\* (one less than the position when the run is empty).
RECURSIVE digitsEnd(_, _)
digitsEnd(text, from) ==
    IF from <= Len(text) /\ IsDigit(text[from]) THEN digitsEnd(text, from + 1)
    ELSE from - 1

RECURSIVE wordEnd(_, _)
wordEnd(text, from) ==
    IF from <= Len(text) /\ IsWord(text[from]) THEN wordEnd(text, from + 1)
    ELSE from - 1

RECURSIVE spacesEnd(_, _)
spacesEnd(text, from) ==
    IF from <= Len(text) /\ IsSpace(text[from]) THEN spacesEnd(text, from + 1)
    ELSE from - 1

\* parseInt of a run of decimal digits.
DigitValue(c) == CHOOSE n \in 0..9 : <<"0", "1", "2", "3", "4", "5", "6", "7", "8", "9">>[n + 1] = c

RECURSIVE parseDigits(_)
parseDigits(digits) ==
    IF digits = <<>> THEN 0
    ELSE parseDigits(SubSeq(digits, 1, Len(digits) - 1)) * 10
         + DigitValue(digits[Len(digits)])

\* The property name a text spells.
RECURSIVE propertyName(_)
propertyName(text) ==
    IF text = <<>> THEN "" ELSE text[1] \o propertyName(Tail(text))

\* \w+(?:\s+\w+)? against a whole text: one word, or two words with
\* whitespace between them.
IsOneOrTwoWords(text) ==
    /\ text # <<>>
    /\ IsWord(text[1])
    /\ LET first == wordEnd(text, 1)
           gap == spacesEnd(text, first + 1)
       IN \/ first = Len(text)
          \/ /\ gap > first
             /\ gap < Len(text)
             /\ wordEnd(text, gap + 1) = Len(text)

\* Whether a line is numbered, that is optional whitespace (when the pattern
\* allows it), digits and a full stop, and what follows the full stop.
AfterNumber(line, leadingSpace) ==
    LET start == IF leadingSpace THEN spacesEnd(line, 1) + 1 ELSE 1
        last == digitsEnd(line, start)
    IN IF last >= start /\ last < Len(line) /\ line[last + 1] = "."
       THEN [numbered |-> TRUE, rest |-> SubSeq(line, last + 2, Len(line))]
       ELSE [numbered |-> FALSE, rest |-> <<>>]

\* (.+?)\s*\((\w+(?:\s+\w+)?)\)\s*$ against what follows the number: the
\* text before the last parenthesis and the difficulty inside it, or Null.
TextAndDifficulty(rest) ==
    LET stripped == trimEnd(rest)
        opens == {p \in 1..Len(stripped) : stripped[p] = "("}
    IN IF stripped = <<>> \/ stripped[Len(stripped)] # ")" \/ opens = {}
       THEN Null
       ELSE LET open == CHOOSE p \in opens : \A q \in opens : q <= p
                inner == SubSeq(stripped, open + 1, Len(stripped) - 1)
            IN IF open > 1 /\ IsOneOrTwoWords(inner)
               THEN [text |-> trim(SubSeq(stripped, 1, open - 1)),
                     difficulty |-> inner]
               ELSE Null

\* One line of parseOptions: /^\d+\.\s*(.+?)\s*\((\w+(?:\s+\w+)?)\)\s*$/i.
optionOfLine(line) ==
    IF AfterNumber(line, FALSE).numbered
    THEN TextAndDifficulty(AfterNumber(line, FALSE).rest)
    ELSE Null

IsOption(parsedLine) == parsedLine # Null

parseOptions(optionsText) ==
    LET lines == split(optionsText, NewLine) IN
    SelectSeq([i \in 1..Len(lines) |-> optionOfLine(lines[i])], IsOption)


\* Some keyword of a list occurs in the text.
includesAny(text, keywords) ==
    \E k \in 1..Len(keywords) : includes(text, keywords[k])

easyKeywords ==
    << <<"s", "e", "a", "r", "c", "h">>,
       <<"l", "o", "o", "k">>,
       <<"g", "a", "t", "h", "e", "r">>,
       <<"c", "o", "l", "l", "e", "c", "t">> >>

mediumKeywords ==
    << <<"e", "x", "p", "l", "o", "r", "e">>,
       <<"i", "n", "v", "e", "s", "t", "i", "g", "a", "t", "e">>,
       <<"e", "x", "a", "m", "i", "n", "e">> >>

hardKeywords ==
    << <<"r", "e", "p", "a", "i", "r">>,
       <<"c", "l", "i", "m", "b">>,
       <<"f", "i", "g", "h", "t">>,
       <<"a", "t", "t", "a", "c", "k">> >>

\* The difficulty parseOptionsFromAnywhere gives a line that names none.
inferredDifficulty(actionText) ==
    LET lowerText == toLowerCase(actionText) IN
    IF includesAny(lowerText, easyKeywords) THEN Easy
    ELSE IF includesAny(lowerText, mediumKeywords) THEN Medium
    ELSE IF includesAny(lowerText, hardKeywords) THEN Hard
    ELSE Medium

\* One line of parseOptionsFromAnywhere: matchWithDiff, else matchNoDiff with
\* a text of more than five characters.
optionOfAnyLine(line) ==
    LET rest == AfterNumber(line, TRUE).rest IN
    IF ~AfterNumber(line, TRUE).numbered THEN Null
    ELSE IF TextAndDifficulty(rest) # Null THEN TextAndDifficulty(rest)
    ELSE IF Len(trim(rest)) > 5
         THEN [text |-> trim(rest), difficulty |-> inferredDifficulty(trim(rest))]
         ELSE Null

parseOptionsFromAnywhere(text) ==
    LET lines == split(text, NewLine) IN
    SelectSeq([i \in 1..Len(lines) |-> optionOfAnyLine(lines[i])], IsOption)

\* /^\s*\d+\.\s*.+/ of the fallback's line filter.
isOptionLine(line) ==
    /\ AfterNumber(line, TRUE).numbered
    /\ AfterNumber(line, TRUE).rest # <<>>

IsNarrativeLine(line) == ~isOptionLine(line)

\* A variant of the number pattern that leaves the sign out: /(\d+)/.
firstNumberUnsigned(text) ==
    LET digits == {i \in 1..Len(text) : IsDigit(text[i])} IN
    IF digits = {} THEN <<>>
    ELSE LET first == CHOOSE i \in digits : \A j \in digits : i <= j
         IN <<parseDigits(SubSeq(text, first, digitsEnd(text, first)))>>

\* /([+-]?\d+)/ in a clause of the state update: parseInt of the first
\* number, as a sequence that is empty when the clause holds no number.
firstNumber(text) ==
    LET digits == {i \in 1..Len(text) : IsDigit(text[i])} IN
    IF digits = {} THEN <<>>
    ELSE LET first == CHOOSE i \in digits : \A j \in digits : i <= j
             value == parseDigits(SubSeq(text, first, digitsEnd(text, first)))
         IN IF first > 1 /\ text[first - 1] = "-" THEN <<0 - value>>
            ELSE <<value>>

\* /([+-])?\s*(\w+)\s*x\s*(\d+)/gi tried at one position: the item, the signed
\* amount and the end of the match, or Null.  \w+ gives characters back until
\* an x and digits follow.
inventoryMatchAt(text, at) ==
    LET signed == text[at] \in {"+", "-"}
        start == spacesEnd(text, IF signed THEN at + 1 ELSE at) + 1
        last == wordEnd(text, start)
        xAt(e) == spacesEnd(text, e + 1) + 1
        digitsAt(e) == spacesEnd(text, xAt(e) + 1) + 1
        fits(e) == /\ xAt(e) <= Len(text)
                   /\ text[xAt(e)] \in {"x", "X"}
                   /\ digitsEnd(text, digitsAt(e)) >= digitsAt(e)
        ends == {e \in start..last : fits(e)}
    IN IF ends = {} THEN Null
       ELSE LET e == CHOOSE n \in ends : \A m \in ends : m <= n
                amount == parseDigits(SubSeq(text, digitsAt(e),
                                             digitsEnd(text, digitsAt(e))))
            IN [item |-> propertyName(toLowerCase(SubSeq(text, start, e))),
                amount |-> IF signed /\ text[at] = "-" THEN 0 - amount ELSE amount,
                end |-> digitsEnd(text, digitsAt(e))]

\* The matches regex.exec finds from a position on, in order: each starts at
\* the first position after the previous match where the pattern matches.
RECURSIVE inventoryMatches(_, _)
inventoryMatches(text, from) ==
    LET starts == {at \in from..Len(text) : inventoryMatchAt(text, at) # Null} IN
    IF starts = {} THEN <<>>
    ELSE LET first == CHOOSE at \in starts : \A other \in starts : at <= other
         IN <<inventoryMatchAt(text, first)>> \o
            inventoryMatches(text, inventoryMatchAt(text, first).end + 1)

\* changes after the loop over the matches: a later match of an item replaces
\* an earlier one.
changesOf(matches) ==
    LET lastOf(item) == CHOOSE k \in 1..Len(matches) :
                            /\ matches[k].item = item
                            /\ \A j \in (k + 1)..Len(matches) : matches[j].item # item
    IN [item \in {matches[k].item : k \in 1..Len(matches)} |->
            matches[lastOf(item)].amount]

parseInventoryChange(text) == changesOf(inventoryMatches(text, 1))

shipWord == <<"s", "h", "i", "p">>
fuelWord == <<"f", "u", "e", "l">>
distanceWord == <<"d", "i", "s", "t", "a", "n", "c", "e">>
inventoryWord == <<"i", "n", "v", "e", "n", "t", "o", "r", "y">>

\* What one clause of the state update writes into updates, given the
\* trimmed clause and the first number in it.
clauseWrites(trimmed, number) ==
    LET lowered == toLowerCase(trimmed)
        names == (IF includes(lowered, shipWord) /\ number # <<>>
                  THEN {"ship"} ELSE {})
                 \cup (IF includes(lowered, fuelWord) /\ number # <<>>
                       THEN {"fuel"} ELSE {})
                 \cup (IF includes(lowered, distanceWord) /\ number # <<>>
                       THEN {"distance"} ELSE {})
                 \cup (IF includes(lowered, inventoryWord)
                       THEN {"inventory"} ELSE {})
    IN [name \in names |->
           IF name = "inventory" THEN parseInventoryChange(trimmed)
           ELSE number[1]]

clauseUpdates(part) == clauseWrites(trim(part), firstNumber(trim(part)))

\* updates after one more clause, the clause adding to what an earlier one
\* wrote.
updatesAfterSumming(before, here) ==
    [name \in DOMAIN before \cup DOMAIN here |->
        IF name \notin DOMAIN before THEN here[name]
        ELSE IF name \notin DOMAIN here THEN before[name]
        ELSE IF name = "inventory"
        THEN [item \in DOMAIN before[name] \cup DOMAIN here[name] |->
                (IF item \in DOMAIN before[name] THEN before[name][item] ELSE 0)
                + (IF item \in DOMAIN here[name] THEN here[name][item] ELSE 0)]
        ELSE before[name] + here[name]]

\* updates after one more clause: the clause replaces what an earlier one
\* wrote.
updatesAfter(before, here) ==
    [name \in DOMAIN before \cup DOMAIN here |->
        IF name \in DOMAIN here THEN here[name] ELSE before[name]]

\* The clauses in order.
RECURSIVE clausesUpdates(_)
clausesUpdates(parts) ==
    IF parts = <<>> THEN <<>>
    ELSE updatesAfter(clausesUpdates(SubSeq(parts, 1, Len(parts) - 1)),
                      clauseUpdates(parts[Len(parts)]))

parseStateUpdate(updateText) == clausesUpdates(split(updateText, "|"))


\* The patterns of detectDeathInNarrative, alternatives written out: each is a
\* sequence of literal pieces with \s+ between one piece and the next.
deathPhrases ==
    << <<<<"y", "o", "u">>, <<"d", "i", "e">>>>,
       <<<<"y", "o", "u">>, <<"d", "i", "e", "d">>>>,
       <<<<"y", "o", "u">>, <<"h", "a", "v", "e", " ", "d", "i", "e", "d">>>>,
       <<<<"y", "o", "u">>, <<"a", "r", "e", " ", "d", "e", "a", "d">>>>,
       <<<<"y", "o", "u", "r">>, <<"d", "e", "a", "t", "h">>>>,
       <<<<"s", "u", "c", "c", "u", "m", "b">>>>,
       <<<<"p", "e", "r", "i", "s", "h">>>>,
       <<<<"p", "e", "r", "i", "s", "h", "e", "d">>>>,
       <<<<"l", "i", "f", "e">>, <<"f", "a", "d", "e", "s">>>>,
       <<<<"l", "i", "f", "e">>, <<"s", "l", "i", "p", "s", " ", "a", "w", "a", "y">>>>,
       <<<<"c", "o", "n", "s", "c", "i", "o", "u", "s", "n", "e", "s", "s">>, <<"f", "a", "d", "e", "s">>>>,
       <<<<"c", "o", "n", "s", "c", "i", "o", "u", "s", "n", "e", "s", "s">>, <<"s", "l", "i", "p", "s", " ", "a", "w", "a", "y">>>>,
       <<<<"l", "a", "s", "t">>, <<"b", "r", "e", "a", "t", "h">>>>,
       <<<<"f", "i", "n", "a", "l">>, <<"b", "r", "e", "a", "t", "h">>>>,
       <<<<"c", "e", "a", "s", "e">>, <<"t", "o">>, <<"e", "x", "i", "s", "t">>>>,
       <<<<"g", "a", "m", "e">>, <<"o", "v", "e", "r">>>>,
       <<<<"t", "h", "e">>, <<"e", "n", "d">>, <<"c", "o", "m", "e">>>>,
       <<<<"t", "h", "e">>, <<"e", "n", "d">>, <<"h", "a", "s">>, <<"c", "o", "m", "e">>>>,
       <<<<"n", "o">>, <<"s", "u", "r", "v", "i", "v", "o", "r", "s">>>>,
       <<<<"y", "o", "u">>, <<"a", "r", "e">>, <<"d", "e", "a", "d">>>>,
       <<<<"b", "r", "e", "a", "t", "h">>, <<"s", "t", "o", "p", "s">>>>,
       <<<<"c", "o", "n", "s", "c", "i", "o", "u", "s", "n", "e", "s", "s">>, <<"f", "a", "d", "e", "s">>>> >>

\* The pieces from index k on match at a position, \s+ before each but the
\* first of the phrase.
RECURSIVE piecesMatchAt(_, _, _, _)
piecesMatchAt(text, at, pieces, k) ==
    IF k > Len(pieces) THEN TRUE
    ELSE /\ at + Len(pieces[k]) - 1 <= Len(text)
         /\ SubSeq(text, at, at + Len(pieces[k]) - 1) = pieces[k]
         /\ LET after == at + Len(pieces[k])
                gap == spacesEnd(text, after)
            IN \/ k = Len(pieces)
               \/ /\ gap >= after
                  /\ piecesMatchAt(text, gap + 1, pieces, k + 1)

phraseTest(text, pieces) ==
    \E at \in 1..Len(text) : piecesMatchAt(text, at, pieces, 1)

\* The patterns tried on the text as written, capitals included.
detectDeathCaseSensitive(narrative) ==
    \E p \in 1..Len(deathPhrases) : phraseTest(narrative, deathPhrases[p])

detectDeathInNarrative(narrative) ==
    LET text == toLowerCase(narrative) IN
    \E p \in 1..Len(deathPhrases) : phraseTest(text, deathPhrases[p])

stateMarker ==
    <<"[", "s", "t", "a", "t", "e", " ", "u", "p", "d", "a", "t", "e", "]">>
optionsMarker == <<"[", "o", "p", "t", "i", "o", "n", "s", "]">>
optionsMarkerUpper == <<"[", "O", "P", "T", "I", "O", "N", "S", "]">>

\* /\[STATE UPDATE\]([\s\S]*?)(?:\[OPTIONS\]|$)/i: where the match starts (0
\* without a match), where its group starts and where the match ends.
stateMatchAt(text) == indexOf(toLowerCase(text), stateMarker, 1)

stateGroupAt(text) == stateMatchAt(text) + Len(stateMarker)

stateMatchEnd(text) ==
    LET optionsAt == indexOf(toLowerCase(text), optionsMarker, stateGroupAt(text))
    IN IF optionsAt = 0 THEN Len(text) ELSE optionsAt - 1

\* A variant of the state update step that reads the whole text when the
\* marker is missing.
stateUpdateOfAnyText(text) ==
    IF stateMatchAt(text) = 0 THEN parseStateUpdate(trim(text))
    ELSE parseStateUpdate(trim(SubSeq(text, stateGroupAt(text),
                                      stateMatchEnd(text))))

\* parsed.stateUpdate.
stateUpdateOf(text) ==
    IF stateMatchAt(text) = 0 THEN Null
    ELSE parseStateUpdate(trim(SubSeq(text, stateGroupAt(text),
                                      stateMatchEnd(text))))

\* text after text.replace(/\[STATE UPDATE\][\s\S]*?(?=\[OPTIONS\]|$)/i, '').
withoutStateUpdate(text) ==
    IF stateMatchAt(text) = 0 THEN text
    ELSE SubSeq(text, 1, stateMatchAt(text) - 1) \o
         SubSeq(text, stateMatchEnd(text) + 1, Len(text))

\* /\[OPTIONS\]([\s\S]*?)$/i on a text.
optionsMatchAt(text) == indexOf(toLowerCase(text), optionsMarker, 1)

\* parsed.options after the OPTIONS section of a text was read.
sectionOf(text) ==
    IF optionsMatchAt(text) = 0 THEN <<>>
    ELSE parseOptions(trim(SubSeq(text, optionsMatchAt(text) + Len(optionsMarker),
                                  Len(text))))

\* text after text.replace(/\[OPTIONS\][\s\S]*$/, ''), which runs when the
\* section was found and is sensitive to case.
withoutOptions(text) ==
    LET cutAt == indexOf(text, optionsMarkerUpper, 1) IN
    IF optionsMatchAt(text) = 0 \/ cutAt = 0 THEN text
    ELSE SubSeq(text, 1, cutAt - 1)

\* parsed.options after the OPTIONS section was read, for a response.
sectionOptions(originalText) == sectionOf(withoutStateUpdate(originalText))

\* parsed once the narrative is taken and searched for a death.
parsedWith(narrative, stateUpdate, options) ==
    [ narrative |-> narrative,
      stateUpdate |-> stateUpdate,
      options |-> options,
      isPlayerDead |-> detectDeathInNarrative(narrative) ]

\* The steps after the fallback: when the section gave no option and the
\* fallback found some, the numbered lines leave the text.
parseAfterFallback(text, stateUpdate, section, options) ==
    parsedWith(trim(IF section = <<>> /\ options # <<>>
                    THEN join(SelectSeq(split(text, NewLine), IsNarrativeLine),
                              NewLine)
                    ELSE text),
               stateUpdate, options)

\* The steps after the OPTIONS section was read and removed: the fallback
\* scans the original text when the section gave no option.
parseAfterOptions(originalText, text, stateUpdate, section) ==
    parseAfterFallback(text, stateUpdate, section,
                       IF section = <<>>
                       THEN parseOptionsFromAnywhere(originalText)
                       ELSE section)

\* The steps after the state update was read and removed from the text.
parseAfterStateUpdate(originalText, text, stateUpdate) ==
    parseAfterOptions(originalText, withoutOptions(text), stateUpdate,
                      sectionOf(text))

\* parseGameMasterResponse(text) up to the defaults.
parseSteps(originalText) ==
    parseAfterStateUpdate(originalText, withoutStateUpdate(originalText),
                          stateUpdateOf(originalText))

\* parsed with the default options in the place of no options.
withDefaults(parsed) ==
    [parsed EXCEPT !.options = IF @ = <<>> THEN DefaultOptions ELSE @]

\* A variant of parseGameMasterResponse that returns the options it found,
\* also when it found none.
parseGameMasterResponseWithoutDefaults(originalText) == parseSteps(originalText)

\* parseGameMasterResponse(text) for a text: {narrative, stateUpdate, options,
\* isPlayerDead}.
parseGameMasterResponse(originalText) == withDefaults(parseSteps(originalText))


(* --------------------------- turns on a text --------------------------- *)
\* The narratives drawn: plain, a death, none, one with a numbered list in it.
NarrativesDrawn ==
    { << "Y", "o", "u", " ", "f", "i", "n", "d", " ", "s", "c", "r", "a", "p",
         "." >>,
      << "Y", "o", "u", " ", "h", "a", "v", "e", " ", "d", "i", "e", "d",
         "." >>,
      <<>>,
      << "T", "h", "e", " ", "d", "r", "o", "n", "e", " ", "f", "i", "r", "e",
         "s", ".", "\n", "1", ".", " ", "S", "e", "a", "r", "c", "h", " ",
         "t", "h", "e", " ", "w", "r", "e", "c", "k", "\n", "2", ".", " ",
         "R", "u", "n" >> }

\* The state sections drawn: none, two clauses, a marker in another case with
\* a clause given twice, a section without any clause.
StateSectionsDrawn ==
    { <<>>,
      << "[", "S", "T", "A", "T", "E", " ", "U", "P", "D", "A", "T", "E", "]",
         "\n", "S", "h", "i", "p", ":", " ", "+", "5", "%", " ", "|", " ",
         "I", "n", "v", "e", "n", "t", "o", "r", "y", ":", " ", "+", "I", "r",
         "o", "n", " ", "x", "3" >>,
      << "[", "S", "t", "a", "t", "e", " ", "U", "p", "d", "a", "t", "e", "]",
         "\n", "F", "u", "e", "l", ":", " ", "-", "2", " ", "|", " ", "F",
         "u", "e", "l", ":", " ", "+", "1" >>,
      << "[", "S", "T", "A", "T", "E", " ", "U", "P", "D", "A", "T", "E", "]",
         "\n", "N", "o", "t", "h", "i", "n", "g", " ", "c", "h", "a", "n",
         "g", "e", "s" >> }

\* The option sections drawn: none, two options, a marker in lower case, a
\* section without a numbered line, numbered lines without a difficulty,
\* numbered lines without a marker, an indented line.
OptionSectionsDrawn ==
    { <<>>,
      << "[", "O", "P", "T", "I", "O", "N", "S", "]", "\n", "1", ".", " ",
         "R", "e", "s", "t", " ", "(", "E", "a", "s", "y", ")", "\n", "2",
         ".", " ", "A", "t", "t", "a", "c", "k", " ", "t", "h", "e", " ", "d",
         "r", "o", "n", "e", " ", "(", "H", "a", "r", "d", ")" >>,
      << "[", "o", "p", "t", "i", "o", "n", "s", "]", "\n", "1", ".", " ",
         "R", "e", "s", "t", " ", "(", "E", "a", "s", "y", ")" >>,
      << "[", "O", "P", "T", "I", "O", "N", "S", "]", "\n", "-", " ", "R",
         "e", "s", "t", "\n", "-", " ", "A", "t", "t", "a", "c", "k" >>,
      << "[", "O", "P", "T", "I", "O", "N", "S", "]", "\n", "1", ".", " ",
         "L", "o", "o", "k", " ", "a", "r", "o", "u", "n", "d", "\n", "2",
         ".", " ", "R", "u", "n" >>,
      << "1", ".", " ", "R", "e", "s", "t", " ", "(", "E", "a", "s", "y", ")",
         "\n", "2", ".", " ", "G", "a", "t", "h", "e", "r", " ", "c", "a",
         "r", "b", "o", "n" >>,
      << "[", "O", "P", "T", "I", "O", "N", "S", "]", "\n", "1", ".", " ",
         "J", "u", "m", "p", " ", "(", "V", "e", "r", "y", " ", "H", "a", "r",
         "d", ")", "\n", " ", "2", ".", " ", "R", "e", "s", "t", " ", "(",
         "E", "a", "s", "y", ")" >> }

\* A part of a response after an empty line, or nothing.
Section(part) == IF part = <<>> THEN <<>> ELSE <<NewLine, NewLine>> \o part

\* The response format the system prompt asks for, written out from its
\* parts.  A number in decimal digits, and with its sign.
DigitChars == <<"0", "1", "2", "3", "4", "5", "6", "7", "8", "9">>

RECURSIVE formatDigits(_)
formatDigits(n) ==
    IF n < 10 THEN <<DigitChars[n + 1]>>
    ELSE formatDigits(n \div 10) \o <<DigitChars[(n % 10) + 1]>>

formatSigned(n) ==
    IF n < 0 THEN <<"-">> \o formatDigits(0 - n) ELSE <<"+">> \o formatDigits(n)

\* Texts in a row with a separator between them.
RECURSIVE joined(_, _)
joined(texts, separator) ==
    IF texts = <<>> THEN <<>>
    ELSE IF Len(texts) = 1 THEN texts[1]
    ELSE texts[1] \o separator \o joined(Tail(texts), separator)

\* "+Iron x5, -Carbon x2"
formatItem(change) ==
    (IF change.amount < 0 THEN <<"-">> ELSE <<"+">>) \o change.item
    \o <<" ", "x">>
    \o formatDigits(IF change.amount < 0 THEN 0 - change.amount
                    ELSE change.amount)

\* "Ship: +5%", "Fuel: +10", "Distance: -1200", "Inventory: +Iron x5"
formatClause(clause) ==
    CASE clause.field = "ship" ->
           <<"S", "h", "i", "p", ":", " ">> \o formatSigned(clause.amount) \o <<"%">>
      [] clause.field = "fuel" ->
           <<"F", "u", "e", "l", ":", " ">> \o formatSigned(clause.amount)
      [] clause.field = "distance" ->
           <<"D", "i", "s", "t", "a", "n", "c", "e", ":", " ">> \o formatSigned(clause.amount)
      [] clause.field = "inventory" ->
           <<"I", "n", "v", "e", "n", "t", "o", "r", "y", ":", " ">> \o
           joined([k \in 1..Len(clause.items) |-> formatItem(clause.items[k])],
                <<",", " ">>)

\* "1. Action text (Difficulty)"
formatOption(number, option) ==
    formatDigits(number) \o <<".", " ">> \o option.text \o <<" ", "(">>
    \o option.difficulty \o <<")">>

\* Narrative, then the STATE UPDATE section, then the OPTIONS section.
formatResponse(narrative, clauses, options) ==
    narrative \o <<NewLine, NewLine>>
    \o <<"[", "S", "T", "A", "T", "E", " ", "U", "P", "D", "A", "T", "E",
         "]">> \o <<NewLine>>
    \o joined([k \in 1..Len(clauses) |-> formatClause(clauses[k])],
            <<" ", "|", " ">>)
    \o <<NewLine, NewLine>>
    \o optionsMarkerUpper \o <<NewLine>>
    \o joined([k \in 1..Len(options) |-> formatOption(k, options[k])],
            <<NewLine>>)

\* The parts of the well-formed responses drawn.
NarrativeCover ==
    <<"T", "h", "e", " ", "d", "r", "o", "n", "e", " ", "f", "i", "r", "e",
      "s", ".", "\n", "Y", "o", "u", " ", "r", "u", "n", " ", "f", "o", "r",
      " ", "c", "o", "v", "e", "r", ".">>
TextJump ==
    <<"J", "u", "m", "p", " ", "t", "o", " ", "t", "h", "e", " ", "n", "e",
      "x", "t", " ", "s", "y", "s", "t", "e", "m">>
ItemIron == <<"I", "r", "o", "n">>
ItemCarbon == <<"C", "a", "r", "b", "o", "n">>

WellFormedNarratives == {NarrativeScrap, NarrativeCover}

WellFormedClauses ==
    { << [field |-> "ship", amount |-> 5, items |-> <<>>],
         [field |-> "inventory", amount |-> 0,
          items |-> <<[item |-> ItemIron, amount |-> 3]>>] >>,
      << [field |-> "fuel", amount |-> -2, items |-> <<>>],
         [field |-> "distance", amount |-> -1200, items |-> <<>>],
         [field |-> "inventory", amount |-> 0,
          items |-> <<[item |-> ItemIron, amount |-> 3],
                      [item |-> ItemCarbon, amount |-> -2]>>] >> }

WellFormedOptions ==
    { << [text |-> TextRest, difficulty |-> Easy],
         [text |-> TextDigFurther, difficulty |-> Hard] >>,
      << [text |-> TextJump, difficulty |-> VeryHard],
         [text |-> TextRest, difficulty |-> Easy],
         [text |-> TextAttack, difficulty |-> Medium] >> }

WellFormedDrawn ==
    [narrative : WellFormedNarratives, clauses : WellFormedClauses,
     options : WellFormedOptions]

WellFormedResponse(parts) ==
    formatResponse(parts.narrative, parts.clauses, parts.options)

\* Texts without a marker and without a numbered line: white space around a
\* sentence, clauses and the word options without their markers, lines that
\* start with a number but are not numbered.
PlainHowl ==
    <<" ", " ", "T", "h", "e", " ", "w", "i", "n", "d", " ", "h", "o", "w",
      "l", "s", ".", "\n">>
PlainClauses ==
    <<"O", "p", "t", "i", "o", "n", "s", " ", "a", "r", "e", " ", "f", "e",
      "w", ".", "\n", "F", "u", "e", "l", ":", " ", "-", "2", " ", "|", " ",
      "S", "h", "i", "p", ":", " ", "+", "5", "%">>
PlainNumbers ==
    <<"3", " ", "d", "r", "o", "n", "e", "s", " ", "c", "i", "r", "c", "l",
      "e", " ", "y", "o", "u", "\n", "1", ")", " ", "R", "u", "n", "\n", "\t",
      "x", "3", " ", "I", "r", "o", "n", " ", "(", "E", "a", "s", "y", ")">>

PlainTextsDrawn == {PlainHowl, PlainClauses, PlainNumbers}

\* Texts whose death phrase stands only in a part the parser cuts out of the
\* narrative: an option of the OPTIONS section, a clause of the STATE UPDATE
\* section, a numbered line.
DeathInOptions ==
    <<"T", "h", "e", " ", "a", "i", "r", " ", "t", "h", "i", "n", "s", ".",
      "\n", "\n", "[", "O", "P", "T", "I", "O", "N", "S", "]", "\n", "1", ".",
      " ", "R", "e", "s", "t", " ", "(", "E", "a", "s", "y", ")", "\n", "2",
      ".", " ", "T", "a", "k", "e", " ", "a", " ", "l", "a", "s", "t", " ",
      "b", "r", "e", "a", "t", "h", " ", "(", "H", "a", "r", "d", ")">>
DeathInStateUpdate ==
    <<"T", "h", "e", " ", "a", "i", "r", " ", "t", "h", "i", "n", "s", ".",
      "\n", "\n", "[", "S", "T", "A", "T", "E", " ", "U", "P", "D", "A", "T",
      "E", "]", "\n", "S", "h", "i", "p", ":", " ", "-", "5", "%", " ", "|",
      " ", "G", "a", "m", "e", " ", "o", "v", "e", "r">>
DeathInNumberedLine ==
    <<"T", "h", "e", " ", "a", "i", "r", " ", "t", "h", "i", "n", "s", ".",
      "\n", "1", ".", " ", "F", "i", "g", "h", "t", " ", "t", "o", " ", "y",
      "o", "u", "r", " ", "d", "e", "a", "t", "h", " ", "(", "H", "a", "r",
      "d", ")">>
ExcisedDeathDrawn == {DeathInOptions, DeathInStateUpdate, DeathInNumberedLine}

\* A STATE UPDATE section that names fuel twice, iron twice in one inventory
\* clause, and has two inventory clauses.
RepeatedClauses ==
    <<"T", "h", "e", " ", "h", "u", "l", "l", " ", "c", "r", "e", "a", "k",
      "s", ".", "\n", "\n", "[", "S", "T", "A", "T", "E", " ", "U", "P", "D",
      "A", "T", "E", "]", "\n", "F", "u", "e", "l", ":", " ", "-", "2", " ",
      "|", " ", "I", "n", "v", "e", "n", "t", "o", "r", "y", ":", " ", "+",
      "I", "r", "o", "n", " ", "x", "3", ",", " ", "-", "I", "r", "o", "n",
      " ", "x", "1", " ", "|", " ", "F", "u", "e", "l", ":", " ", "+", "1",
      " ", "|", " ", "I", "n", "v", "e", "n", "t", "o", "r", "y", ":", " ",
      "+", "C", "a", "r", "b", "o", "n", " ", "x", "2">>

\* A STATE UPDATE section whose one inventory clause names iron twice.
RepeatedItem ==
    <<"T", "h", "e", " ", "h", "u", "l", "l", " ", "c", "r", "e", "a", "k",
      "s", ".", "\n", "\n", "[", "S", "T", "A", "T", "E", " ", "U", "P", "D",
      "A", "T", "E", "]", "\n", "I", "n", "v", "e", "n", "t", "o", "r", "y",
      ":", " ", "+", "I", "r", "o", "n", " ", "x", "3", ",", " ", "-", "I",
      "r", "o", "n", " ", "x", "1">>

\* The responses the oracle sends here: a narrative, then the two sections in
\* either order; the well-formed responses; the texts without markers.
ResponsesDrawn ==
    { narrative \o Section(state) \o Section(options) :
          narrative \in NarrativesDrawn, state \in StateSectionsDrawn,
          options \in OptionSectionsDrawn }
    \cup
    { narrative \o Section(options) \o Section(state) :
          narrative \in NarrativesDrawn, state \in StateSectionsDrawn,
          options \in OptionSectionsDrawn }
    \cup
    { WellFormedResponse(parts) : parts \in WellFormedDrawn }
    \cup PlainTextsDrawn \cup ExcisedDeathDrawn \cup {RepeatedClauses, RepeatedItem}

\* { role: 'assistant', content: response }
AssistantContent(turn, response) ==
    [role |-> "assistant", call |-> turn.call, content |-> response]

\* callAI returned a text to processPlayerAction.
TurnSucceedsOnText(i, response) ==
    /\ i \in 1..Len(turns)
    /\ response \in ResponsesDrawn
    /\ LET turn == turns[i]
           pushed == [gameState EXCEPT !.conversationHistory =
                        pruneConversationHistory(
                            @ \o << UserEntry(turn),
                                    AssistantContent(turn, response) >>)]
           parsed == parseGameMasterResponse(response)
           applied == applyStateUpdates(pushed, parsed.stateUpdate)
       IN IF parsed.isPlayerDead
          THEN /\ gameState' =
                    [applied EXCEPT
                       !.stats.deathCount = @ + 1,
                       !.currentNarrative = parsed.narrative,
                       !.currentOptions = <<>>]
               /\ UNCHANGED << autoSaveTimeout, timers, errorMessage >>
          ELSE /\ gameState' =
                    [applied EXCEPT
                       !.currentNarrative = parsed.narrative,
                       !.currentOptions = parsed.options,
                       !.actionHistory = PushAction(@,
                           [action |-> turn.actionText,
                            result |-> ResultSummary(parsed.narrative)])]
               /\ timers' = ScheduledTimers(turn.call)
               /\ autoSaveTimeout' = turn.call
               /\ UNCHANGED errorMessage
    /\ turns' = Remove(turns, i)
    /\ Finally
    /\ UNCHANGED << initialized, pendingAction, sliderMax, skillNameDisplay,
                    newGames, calls,
                    apiKey, settings, saves >>

\* A session on the loaded auto-save in which one more oracle call fits under
\* the bound on calls.
TextInit ==
    /\ initialized = TRUE
    /\ gameState = PriorSave
    /\ isProcessingAction = FALSE
    /\ pendingAction = Null
    /\ sliderMax = 0
    /\ skillNameDisplay = ""
    /\ actionsDisabled = FALSE
    /\ submitDisabled = FALSE
    /\ turns = <<>>
    /\ guardHit = FALSE
    /\ newGames = <<>>
    /\ calls = MaxCalls - 1
    /\ apiKey = TRUE
    /\ settings = [autoSave |-> TRUE]
    /\ saves = [s \in Slots |-> PriorSave]
    /\ autoSaveTimeout = 0
    /\ timers = {}
    /\ errorMessage = ""

\* What runs in such a session: the player types an action, the oracle answers
\* with a text, the auto-save timer fires.
TextNext ==
    \/ \E text \in CustomTexts : CustomAction(text)
    \/ \E i \in 1..MaxCalls, response \in ResponsesDrawn :
           TurnSucceedsOnText(i, response)
    \/ \E id \in 1..MaxCalls : AutoSaveTimer(id)

SpecText == TextInit /\ [][TextNext]_vars

\* The text of the last entry of the conversation history, when it holds one.
lastResponse ==
    IF gameState = Null THEN <<>>
    ELSE LET history == gameState.conversationHistory IN
         IF history = <<>> \/ "content" \notin DOMAIN history[Len(history)]
         THEN <<>>
         ELSE history[Len(history)].content

\* C21: parseGameMasterResponse returns a non-empty option list for every
\* text, the three default options (Easy, Medium, Hard) when neither the
\* OPTIONS section nor the fallback scan yields an option; so after a turn
\* that completes without death currentOptions holds the options parsed and is
\* not empty.  (The response a turn completed on is the last entry of the
\* conversation history after it.)
C21_OptionsNeverEmpty ==
    [][ \A i \in 1..Len(turns) :
            TurnSucceedsOnText(i, lastResponse') =>
                LET response == lastResponse'
                    parsed == parseGameMasterResponse(response)
                IN /\ parsed.options # <<>>
                   /\ (/\ sectionOptions(response) = <<>>
                       /\ parseOptionsFromAnywhere(response) = <<>>) =>
                          parsed.options = DefaultOptions
                   /\ ~parsed.isPlayerDead =>
                          /\ gameState'.currentOptions = parsed.options
                          /\ gameState'.currentOptions # <<>> ]_vars

\* A turn completed without death on a response whose OPTIONS section holds no
\* numbered line: the default options are the current ones.
C21_Witness ==
    /\ gameState.currentOptions = DefaultOptions
    /\ gameState.stats.deathCount = 0
    /\ Len(gameState.actionHistory) = Len(PriorSave.actionHistory) + 1
    /\ LET last == gameState.conversationHistory[Len(gameState.conversationHistory)]
       IN /\ last.role = "assistant"
          /\ "content" \in DOMAIN last
          /\ includes(last.content, optionsMarkerUpper)

(* ------------------------- the parser on texts ------------------------- *)
\* The state delta a list of clauses spells, when no field is named twice.
expectedDelta(clauses) ==
    [field \in {clauses[k].field : k \in 1..Len(clauses)} |->
        LET clause == clauses[CHOOSE k \in 1..Len(clauses) :
                                  clauses[k].field = field]
        IN IF field = "inventory"
           THEN [name \in {propertyName(toLowerCase(clause.items[k].item)) :
                              k \in 1..Len(clause.items)} |->
                    clause.items[CHOOSE k \in 1..Len(clause.items) :
                        propertyName(toLowerCase(clause.items[k].item)) = name
                    ].amount]
           ELSE clause.amount]

\* C31: for a well-formed response (narrative, STATE UPDATE block, OPTIONS
\* block) parseGameMasterResponse returns the narrative without either block,
\* a state delta with one field per clause carrying the clause's signed
\* amount, and one option per numbered line, in order, with its difficulty;
\* the turn shows that narrative and those options.
C31_ParserRoundTrip ==
    \A parts \in WellFormedDrawn :
        lastResponse = WellFormedResponse(parts) =>
            LET parsed == parseGameMasterResponse(lastResponse) IN
            /\ parsed.narrative = parts.narrative
            /\ parsed.stateUpdate = expectedDelta(parts.clauses)
            /\ parsed.options = parts.options
            /\ ~parsed.isPlayerDead
            /\ gameState.currentNarrative = parts.narrative
            /\ gameState.currentOptions = parts.options

\* A turn completed on the well-formed response with three clauses and three
\* options after the two-line narrative.
C31_Witness ==
    /\ \E parts \in WellFormedDrawn :
          /\ lastResponse = WellFormedResponse(parts)
          /\ parts.narrative = NarrativeCover
          /\ Len(parts.clauses) = 3
          /\ Len(parts.options) = 3
    /\ gameState.inventory.iron = PriorSave.inventory.iron + 3
    /\ Len(gameState.currentOptions) = 3

\* The last entry of the conversation history holds a response text.
hasResponse ==
    /\ gameState # Null
    /\ gameState.conversationHistory # <<>>
    /\ "content" \in DOMAIN gameState.conversationHistory[
                                Len(gameState.conversationHistory)]

\* A text without the STATE UPDATE marker, without the OPTIONS marker (in any
\* case) and without a line that starts with a number and a full stop.
IsPlain(text) ==
    /\ ~includes(toLowerCase(text), stateMarker)
    /\ ~includes(toLowerCase(text), optionsMarker)
    /\ LET lines == split(text, NewLine) IN
       \A k \in 1..Len(lines) : ~AfterNumber(lines[k], TRUE).numbered

\* C32: for a text without markers and numbered lines parseGameMasterResponse
\* returns the whole trimmed text as the narrative, no state update and the
\* three default options; the turn changes no ship value and no inventory.
C32_PlainTextDegrades ==
    (hasResponse /\ IsPlain(lastResponse)) =>
        LET parsed == parseGameMasterResponse(lastResponse) IN
        /\ parsed.narrative = trim(lastResponse)
        /\ parsed.stateUpdate = Null
        /\ parsed.options = DefaultOptions
        /\ gameState.currentNarrative = trim(lastResponse)
        /\ gameState.ship = PriorSave.ship
        /\ gameState.inventory = PriorSave.inventory
        /\ gameState.currentLocation = PriorSave.currentLocation
        /\ ~parsed.isPlayerDead => gameState.currentOptions = DefaultOptions

\* A turn completed on the text that holds clauses but no marker.
C32_Witness ==
    /\ hasResponse
    /\ lastResponse = PlainClauses
    /\ gameState.currentOptions = DefaultOptions
    /\ Len(gameState.currentNarrative) = Len(PlainClauses)

\* ---------------------------------------------------------------------------
\* One whole turn, from the click to the applied response
\* ---------------------------------------------------------------------------

\* rollDice(20) returns any of these.
DiceRolls == 1..DiceSides

\* The skip button of the wager prompt, with the die free to land on any side.
SkipSpendRolling ==
    /\ initialized
    /\ pendingAction # Null
    /\ processPlayerActionRolling(pendingAction.actionText,
                                  pendingAction.difficulty, 0, Null, DiceRolls)

\* The response of the turn: narrative, STATE UPDATE and OPTIONS sections.
EndToEndParts ==
    [narrative |-> NarrativeScrap,
     clauses |-> << [field |-> "ship", amount |-> 5, items |-> <<>>],
                    [field |-> "inventory", amount |-> 0,
                     items |-> <<[item |-> ItemIron, amount |-> 3]>>] >>,
     options |-> << [text |-> TextRest, difficulty |-> Easy],
                    [text |-> TextDigFurther, difficulty |-> Hard] >>]
EndToEndResponse == WellFormedResponse(EndToEndParts)

\* The responses the oracle gives in these sessions: the well-formed ones that
\* offer the two options above.
EndToEndResponses ==
    { WellFormedResponse(parts) :
        parts \in {drawn \in WellFormedDrawn :
                     drawn.options = EndToEndParts.options} }

\* The game startNewGame leaves on the first scenario (health 15, fuel 0, empty
\* inventory) once the oracle has answered with a narrative alone: default
\* options, the opening in the history.
OpenedGame(randomDistance) ==
    LET fresh == NewGameState(STARTING_SCENARIOS[1], randomDistance)
        pushed == [fresh EXCEPT !.conversationHistory =
                     << [role |-> "assistant", call |-> MaxCalls - 1,
                         content |-> NarrativeScrap] >>]
    IN [pushed EXCEPT !.currentNarrative = NarrativeScrap,
                      !.currentOptions = DefaultOptions]

EndToEndInit ==
    /\ initialized = TRUE
    /\ gameState \in {OpenedGame(distance) : distance \in DistancesDrawn}
    /\ isProcessingAction = FALSE
    /\ pendingAction = Null
    /\ sliderMax = 0
    /\ skillNameDisplay = ""
    /\ actionsDisabled = FALSE
    /\ submitDisabled = FALSE
    /\ turns = <<>>
    /\ guardHit = FALSE
    /\ newGames = <<>>
    /\ calls = MaxCalls - 1
    /\ apiKey = TRUE
    /\ settings = [autoSave |-> TRUE]
    /\ saves = [s \in Slots |-> gameState]
    /\ autoSaveTimeout = 0
    /\ timers = {}
    /\ errorMessage = ""

EndToEndNext ==
    \/ OptionClick
    \/ CancelAction
    \/ SkipSpendRolling
    \/ \E i \in 1..MaxCalls, response \in EndToEndResponses :
           TurnSucceedsOnText(i, response)
    \/ \E id \in 1..MaxCalls : AutoSaveTimer(id)

SpecEndToEnd == EndToEndInit /\ [][EndToEndNext]_vars

\* The step in which turn i, a Medium action with no wager whose roll totals
\* 14, gets EndToEndResponse while the ship has health 15 and fuel 0.
EndToEndStep(i) ==
    /\ turns' = Remove(turns, i)
    /\ Len(gameState'.conversationHistory) > Len(gameState.conversationHistory)
    /\ lastResponse' = EndToEndResponse
    /\ turns[i].difficulty = Medium
    /\ turns[i].spentPoints = 0
    /\ turns[i].diceRoll.total = 14
    /\ gameState.ship = [health |-> 15, fuel |-> 0]

\* C33: from health 15 and fuel 0, a Medium action with wager 0 whose roll
\* totals 14 succeeds, and the response "You find scrap." with the state update
\* "Ship: +5% | Inventory: +Iron x3" and the options "1. Rest (Easy)",
\* "2. Dig further (Hard)" leaves health 20, 3 iron, exactly two current
\* options of tiers Easy and Hard, and 3 more resources gathered.
C33_EndToEndTurn ==
    [][ \A i \in 1..Len(turns) :
          EndToEndStep(i) =>
            /\ turns[i].diceRoll.success
            /\ gameState'.ship.health = 20
            /\ gameState'.inventory.iron = 3
            /\ Len(gameState'.currentOptions) = 2
            /\ gameState'.currentOptions[1].difficulty = Easy
            /\ gameState'.currentOptions[2].difficulty = Hard
            /\ gameState'.stats.resourcesGathered =
                   gameState.stats.resourcesGathered + 3 ]_vars

\* The turn has happened: the roll of 14 against Medium earned its margin, and
\* the response has been applied.
C33_Witness ==
    /\ lastResponse = EndToEndResponse
    /\ turns = <<>>
    /\ gameState.ship = [health |-> 20, fuel |-> 0]
    /\ gameState.inventory.iron = 3
    /\ gameState.stats.resourcesGathered = 3
    /\ gameState.skills[SkillTable[TextLook]].points = 14 - DifficultyClass(Medium)
    /\ Len(gameState.actionHistory) = 1
    /\ gameState.actionHistory[1].action = TextLook
    /\ Len(gameState.currentOptions) = 2

\* ---------------------------------------------------------------------------
\* The order of the steps of a turn
\* ---------------------------------------------------------------------------

\* The points the roll of a turn earned.
Earned(diceRoll) ==
    IF diceRoll.success THEN Max(1, diceRoll.total - diceRoll.dc) ELSE 0

\* While the turn awaits the oracle: the roll was made with the wager as
\* bonus, the balance of the skill has lost the wager and gained the award,
\* and nothing of the response is in the state.
AwaitingWithRollSettled(gs, turn) ==
    LET submitted == turn.submitted
        skill == turn.appliedSkill
    IN /\ turn.diceRoll.bonuses = turn.spentPoints
       /\ gs.skills[skill].points =
            submitted.skills[skill].points - turn.spentPoints
                + Earned(turn.diceRoll)
       /\ \A other \in Skills \ {skill} :
            gs.skills[other] = submitted.skills[other]
       /\ gs.conversationHistory = submitted.conversationHistory
       /\ gs.ship = submitted.ship
       /\ gs.inventory = submitted.inventory
       /\ gs.currentLocation = submitted.currentLocation
       /\ gs.stats = submitted.stats

\* The response's delta has changed the state.
DeltaApplied(before, after) ==
    \/ after.ship # before.ship
    \/ after.inventory # before.inventory
    \/ after.currentLocation # before.currentLocation
    \/ after.stats.resourcesGathered # before.stats.resourcesGathered

\* The history ends with the request and the response of the turn.
HistoryEndsWith(gs, turn) ==
    LET history == gs.conversationHistory
        length == Len(history)
    IN /\ length >= 2
       /\ history[length - 1] = UserEntry(turn)
       /\ history[length].role = "assistant"
       /\ history[length].call = turn.call

\* C34: in a turn with a roll, the wager deduction, the roll and the award all
\* precede the oracle call: while the turn awaits the oracle the skill balance
\* already has the wager deducted and the award added.  The delta of the
\* response is applied only after the request and the response are in the
\* conversation history, and the turn's end changes no skill balance.
C34_RollThenOracleThenDelta ==
    [][ /\ \A i \in 1..Len(turns') :
             turns'[i].difficulty # <<>> =>
                 AwaitingWithRollSettled(gameState', turns'[i])
        /\ \A i \in 1..Len(turns) :
             (turns' = Remove(turns, i) /\ DeltaApplied(gameState, gameState')) =>
                 /\ HistoryEndsWith(gameState', turns[i])
                 /\ gameState'.skills = gameState.skills ]_vars

\* A turn with a wager whose roll succeeded awaits the oracle, after an
\* earlier turn whose response changed the state.
C34_Witness ==
    /\ Len(turns) = 1
    /\ turns[1].difficulty # <<>>
    /\ turns[1].spentPoints > 0
    /\ turns[1].diceRoll.success
    /\ AwaitingWithRollSettled(gameState, turns[1])
    /\ gameState.inventory.iron > PriorSave.inventory.iron
    /\ Len(gameState.conversationHistory) > Len(PriorSave.conversationHistory)

\* ---------------------------------------------------------------------------
\* Death detection
\* ---------------------------------------------------------------------------

\* The turn of the session ended in the death branch (3047-3050).
playerDied == gameState.stats.deathCount > PriorSave.stats.deathCount

\* One of the death patterns matches the text, whatever its letters' case.
deathPhraseIn(text) ==
    \E p \in 1..Len(deathPhrases) :
        phraseTest(toLowerCase(text), deathPhrases[p])

\* C35 as stated: the player is dead exactly when a death pattern matches
\* anywhere in the text given to the parser, excised sections included.
C35_DeathScansFullResponse ==
    hasResponse => (playerDied <=> deathPhraseIn(lastResponse))

\* C35, amended: the player is dead exactly when a death pattern matches the
\* narrative the parser returns; a phrase that stands only in an excised OPTIONS
\* section, STATE UPDATE section or numbered line does not count.
C35_DeathScansNarrative ==
    hasResponse =>
        /\ playerDied <=> deathPhraseIn(gameState.currentNarrative)
        /\ lastResponse \in ExcisedDeathDrawn =>
               /\ deathPhraseIn(lastResponse)
               /\ ~playerDied

\* The response with "last breath" in its second option has been applied: the
\* player lives and has the two options.
C35_Witness ==
    /\ hasResponse
    /\ lastResponse = DeathInOptions
    /\ ~playerDied
    /\ Len(gameState.currentOptions) = 2
    /\ deathPhraseIn(gameState.currentOptions[2].text)

\* ---------------------------------------------------------------------------
\* The OPTIONS section and the narrative
\* ---------------------------------------------------------------------------

\* The working text in which the OPTIONS section is looked for, and the place
\* of its marker there (0 when the section is not recognised).
optionsWorkingText == withoutStateUpdate(lastResponse)
optionsRecognisedAt == optionsMatchAt(optionsWorkingText)

\* The lines of the recognised section, marker line included, without the
\* white space around them and without the empty ones.
optionsSectionLines ==
    LET section == SubSeq(optionsWorkingText, optionsRecognisedAt,
                          Len(optionsWorkingText))
        lines == split(section, NewLine)
    IN {trim(lines[k]) : k \in 1..Len(lines)} \ {<<>>}

\* The lines of a text, without the white space around them.
trimmedLines(text) ==
    LET lines == split(text, NewLine) IN {trim(lines[k]) : k \in 1..Len(lines)}

\* C36: the OPTIONS section is recognised whatever the casing of its marker,
\* and whenever it is recognised it is cut out of the working text: the
\* narrative contains neither the marker nor a line of the section.
C36_OptionsSectionExcised ==
    (hasResponse /\ optionsRecognisedAt # 0) =>
        /\ ~includes(toLowerCase(gameState.currentNarrative), optionsMarker)
        /\ trimmedLines(gameState.currentNarrative) \cap optionsSectionLines = {}

\* ---------------------------------------------------------------------------
\* The fallback extraction and the narrative
\* ---------------------------------------------------------------------------

\* The options of the response came from the fallback: the OPTIONS section gave
\* none and the numbered lines of the response gave some.
fallbackUsed ==
    /\ hasResponse
    /\ sectionOptions(lastResponse) = <<>>
    /\ parseOptionsFromAnywhere(lastResponse) # <<>>

\* The working text the fallback filters: the response without its sections.
fallbackWorkingText == withoutOptions(withoutStateUpdate(lastResponse))

\* The line was not turned into an option.
IsNotExtracted(line) == ~IsOption(optionOfAnyLine(line))

\* C37: in the fallback extraction exactly the lines extracted as options are
\* removed from the narrative: every other line of the working text, a numbered
\* line too short to be an option among them, stays.
C37_FallbackRemovesExtractedLines ==
    fallbackUsed =>
        gameState.currentNarrative =
            trim(join(SelectSeq(split(fallbackWorkingText, NewLine),
                                IsNotExtracted),
                      NewLine))

\* ---------------------------------------------------------------------------
\* Repeated fields and items in a STATE UPDATE section
\* ---------------------------------------------------------------------------

\* The clauses of the STATE UPDATE section of the last response.
stateSectionParts ==
    split(trim(SubSeq(lastResponse, stateGroupAt(lastResponse),
                      stateMatchEnd(lastResponse))), "|")

\* The last of the clauses that writes the field.
lastClauseWriting(parts, name) ==
    CHOOSE k \in 1..Len(parts) :
        /\ name \in DOMAIN clauseUpdates(parts[k])
        /\ \A j \in (k + 1)..Len(parts) :
               name \notin DOMAIN clauseUpdates(parts[j])

\* The last match of the item in an inventory clause.
lastMatchOf(matches, item) ==
    CHOOSE k \in 1..Len(matches) :
        /\ matches[k].item = item
        /\ \A j \in (k + 1)..Len(matches) : matches[j].item # item

\* The delta has, for each field a clause writes, what the last such clause
\* says; its inventory has the items of the last inventory clause alone, each
\* with the amount of its last occurrence there.
LastOccurrenceWins(parts, update) ==
    /\ DOMAIN update = UNION {DOMAIN clauseUpdates(parts[k]) : k \in 1..Len(parts)}
    /\ \A name \in DOMAIN update \ {"inventory"} :
           update[name] =
               firstNumber(trim(parts[lastClauseWriting(parts, name)]))[1]
    /\ "inventory" \in DOMAIN update =>
           LET matches ==
                   inventoryMatches(
                       trim(parts[lastClauseWriting(parts, "inventory")]), 1)
           IN /\ DOMAIN update.inventory =
                     {matches[k].item : k \in 1..Len(matches)}
              /\ \A item \in DOMAIN update.inventory :
                     update.inventory[item] =
                         matches[lastMatchOf(matches, item)].amount

\* C38: when a STATE UPDATE section names a field in more than one clause, or
\* an item more than once in its inventory clauses, the last occurrence alone
\* gives the delta: earlier ones are overwritten, not summed, and a later
\* inventory clause discards an earlier one entirely.
C38_LastOccurrenceWins ==
    (hasResponse /\ stateMatchAt(lastResponse) # 0) =>
        /\ LastOccurrenceWins(stateSectionParts,
                              parseGameMasterResponse(lastResponse).stateUpdate)
        /\ lastResponse = RepeatedClauses =>
               /\ gameState.ship.fuel = PriorSave.ship.fuel + 1
               /\ gameState.inventory.carbon = PriorSave.inventory.carbon + 2
               /\ gameState.inventory.iron = PriorSave.inventory.iron
        /\ lastResponse = RepeatedItem =>
               gameState.inventory.iron = PriorSave.inventory.iron - 1

\* The response with two fuel clauses and two inventory clauses has been
\* applied: fuel went up by one, carbon by two, iron is as it was.
C38_Witness ==
    /\ hasResponse
    /\ lastResponse = RepeatedClauses
    /\ Len(stateSectionParts) = 4
    /\ gameState.ship.fuel = PriorSave.ship.fuel + 1
    /\ gameState.inventory.carbon = PriorSave.inventory.carbon + 2
    /\ gameState.inventory.iron = PriorSave.inventory.iron
====
